---- MODULE Spec2Model ----
(***************************************************************************)
(* Sybase -> PostgreSQL migration toolkit.                                 *)
(*                                                                         *)
(* Part 1 (specification Spec): the batch migration engine of              *)
(* data_migration.py (migrate_employees_data, sync_table_data) running     *)
(* against a source table and a target table reached through one           *)
(* PostgreSQL connection whose writes stay private to its transaction      *)
(* until commit.                                                           *)
(*                                                                         *)
(* Part 2 (specification RestoreSpec): the restore entry points of         *)
(* backup_restore.py (crash_safe_restore, restore_backup, the two resume   *)
(* functions) driving the external pg_restore tool section by section.     *)
(***************************************************************************)
EXTENDS Integers, Sequences, FiniteSets, TLC

\* ------------------------------------------------------------------------
\* Bounds of the model
\* ------------------------------------------------------------------------
\* Largest number of rows the source table holds (ids are 1..MaxRows).
MaxRows == 3
\* Largest configured batch size (MIGRATION_CONFIG['batch_size'] is any int).
MaxBatch == 2
\* Longest section list handed to restore_backup.
MaxSections == 2

\* ------------------------------------------------------------------------
\* Data
\* ------------------------------------------------------------------------
\* Two salaries of the sample data: Bob's salary before and after the update.
Salaries == {75000, 80000}
\* Values of the updated_at column, in time order.
Stamps == {1, 2}
Ids == 1..MaxRows
\* A row of the employees table; salary stands for the non-key, non-timestamp
\* columns (name, dept, salary), which the code always moves together.
Row == [id : Ids, salary : Salaries, updated_at : Stamps]
\* The non-key columns a source row is written with: the original salary at
\* the earlier time, the raised salary at the later time.
Versions == {[salary |-> 75000, updated_at |-> 1],
             [salary |-> 80000, updated_at |-> 2]}

Min(a, b) == IF a < b THEN a ELSE b

\* The two batch migration entry points.
Ops == {"migrate_employees_data", "sync_table_data"}

\* The sections pg_restore knows.
SectionNames == {"pre-data", "data", "post-data"}
\* The order crash_safe_restore drives them in.
SectionOrder == <<"pre-data", "data", "post-data">>
\* What one pg_restore invocation can do to its caller: exit 0, exit non-zero
\* (CalledProcessError), or fail to run at all (any other exception).
Outcomes == {"ok", "called_process_error", "other_exception"}
\* The table rows the backup archive holds, by id.
ArchiveIds == {1, 2}
\* sync_job calls of one run of the service.
MaxCycles == 3
\* Sampler threads one PerformanceMonitor starts, and samples it collects.
MaxThreads == 2
MaxSamples == 2
\* Columns of a table descriptor read from the source catalog.
MaxColumns == 2
\* Rows the target database is let grow to by repeated data loads.
MaxLoaded == 4

VARIABLES
    \* ---- stores
    syb_table,      \* source table employees: sequence of rows, physical order
    pg_table,       \* target table employees: committed rows
    pg_txn,         \* target table as seen inside pg_conn's open transaction
    \* ---- DataMigration object and the frame of the running operation
    batch_size,     \* self.batch_size
    op,             \* which entry point runs / ran last
    pc,             \* "idle", "batch" (inside the batch loop), "done"
    rows,           \* rows = syb_cur.fetchall()
    i,              \* loop variable of range(0, len(rows), batch_size)
    j,              \* number of rows of the current batch already executed
    success_count,
    error_count,
    result,         \* return value of the last operation ("none" before any)
    exit_path,      \* which return statement ended the last operation
    \* ---- observation of the run (history)
    batch_log,      \* one entry per batch that ended in this run
    pre_batch,      \* pg_table when the batch that ended last began
    executed,       \* rows of that batch executed before it ended
    prev_target,    \* pg_table left by the run before, when that run was
                    \* failure-free over the same source rows; else NoPrev
    origin,         \* pg_table when the observer last noted it, while the
                    \* source has not been edited since; else NoPrev
    crashed,        \* the process was killed inside a run since then
    migrated,       \* a batch run into the table create_table_postgres
                    \* made has ended failure-free since then
    \* ---- frame of incremental_sync
    last_sync,      \* last_sync = pg_cur.fetchone()[0]
    txn_aborted,    \* pg_conn's transaction is in the failed state
    \* ---- BackupRestore: frame of the running restore operation
    r_op,           \* which restore entry point runs / ran last
    r_pc,           \* "idle", "running", "done"
    sections,       \* the section list the operation walks through
    k,              \* number of sections already attempted
    attempts,       \* pg_restore invocations of this operation, in order
    success_sections,
    failed_sections,
    r_result,       \* TRUE, FALSE, "raised" or "none"
    \* ---- the database pg_restore is pointed at (target_db)
    db,             \* [tables, data, indexes]: schema present, copies of each
                    \* archive row loaded, indexes and constraints present
    \* ---- observation of the restore operations (history)
    first_failure,  \* what the first failed crash_safe_restore call returned,
                    \* with the section that had failed; {} before it
    resume_track,   \* how far the interrupt-and-resume scenario has come
    \* ---- DatabaseConnections.postgres_pool
    checked_out,    \* connections handed out by getconn and not put back
    p_op,           \* which operation used the pool last
    p_exit,         \* which way that operation ended
    \* ---- scheduled_sync: the service process
    running,        \* the global flag of the scheduler loop
    s_pc,           \* where main / run_scheduler stands
    cycle_pc,       \* where the sync_job in progress stands; "none" between
    due,            \* the scheduled job is due
    cycles,         \* sync_job calls so far (history)
    finished,       \* sync_job calls that have returned (history)
    signal_at,      \* s_pc when the shutdown signal arrived (history)
    late_start,     \* a sync_job call began after the signal (history)
    fail_log,       \* per sync_job call so far, whether a stage of it failed
    held,           \* target pools and source connections opened by the
                    \* sync_job calls so far and not closed
    \* ---- PerformanceMonitor
    is_monitoring,  \* self.is_monitoring
    sampler,        \* where each _monitor_loop thread stands
    monitor_thread, \* self.monitor_thread: the thread started last, 0 = None
    caller_pc,      \* where the caller of the monitor stands
    samples,        \* len(self.performance_data)
    columns,        \* the column descriptor read from the source catalog
    ddl,            \* what generate_postgres_schema returned for it
    conv,           \* a call of convert_sybase_to_postgres_type: its
                    \* arguments and its result
    late_append     \* a sample was appended after stop_monitoring had
                    \* returned (history)

mig_vars == <<syb_table, pg_table, pg_txn, batch_size, op, pc, rows, i, j,
              success_count, error_count, result, exit_path, batch_log,
              pre_batch, executed, prev_target, last_sync, txn_aborted,
              origin, crashed, migrated>>
res_vars == <<r_op, r_pc, sections, k, attempts, success_sections,
              failed_sections, r_result, db, first_failure, resume_track>>
pool_vars == <<checked_out, p_op, p_exit>>
cycle_vars == <<fail_log, held>>
sched_vars == <<running, s_pc, cycle_pc, due, cycles, finished, signal_at,
                late_start, cycle_vars>>
mon_vars == <<is_monitoring, sampler, monitor_thread, caller_pc, samples,
              late_append>>
schema_vars == <<columns, ddl, conv>>
env_vars == <<pool_vars, sched_vars, mon_vars, schema_vars>>
vars == <<mig_vars, res_vars, env_vars>>

\* SELECT MAX(updated_at) on a table without rows yields None; every row
\* carries a stamp of Stamps.
NoWatermark == 0

\* No table holds a row with id 0: the value of prev_target when there is no
\* such previous run.
NoPrev == <<[id |-> 0, salary |-> 0, updated_at |-> 0]>>

\* ------------------------------------------------------------------------
\* Tables
\* ------------------------------------------------------------------------
HasKey(T, id) == \E n \in 1..Len(T) : T[n].id = id
RowsWithKey(T, id) == {n \in 1..Len(T) : T[n].id = id}
KeysOf(T) == {T[n].id : n \in 1..Len(T)}

\* Variant: the table is emptied before the row is written.
Upsert_Replaces(T, row) == <<row>>

\* Variant: a plain INSERT with no conflict clause into a table without key.
Upsert_InsertOnly(T, row) == Append(T, row)

\* Variant: the SET list of DO UPDATE leaves out updated_at.
Upsert_KeepsStamp(T, row) ==
    IF HasKey(T, row.id)
    THEN [n \in 1..Len(T) |->
            IF T[n].id = row.id
            THEN [T[n] EXCEPT !.salary = row.salary]
            ELSE T[n]]
    ELSE Append(T, row)

\* Variant: ON CONFLICT (id) DO NOTHING.
Upsert_IgnoresConflict(T, row) ==
    IF HasKey(T, row.id) THEN T ELSE Append(T, row)

\* INSERT ... ON CONFLICT (id) DO UPDATE SET <every non-key column> = EXCLUDED.<column>
Upsert(T, row) ==
    IF HasKey(T, row.id)
    THEN [n \in 1..Len(T) |->
            IF T[n].id = row.id
            THEN [T[n] EXCEPT !.salary = row.salary,
                              !.updated_at = row.updated_at]
            ELSE T[n]]
    ELSE Append(T, row)

\* Variant: commit() drops the writes of the transaction.
Commit_Discards(committed, txn) == committed

\* pg_conn.commit(): the transaction's view becomes the committed table.
Commit(committed, txn) == txn
\* Variant: the except clause leaves the transaction's writes in place.
Rollback_KeepsWrites(committed, txn) == txn

\* pg_conn.rollback(): the transaction's writes are dropped.
Rollback(committed, txn) == committed

\* Variant: the slice runs one row into the next batch.
Batch_Overlaps(rs, start, size) ==
    SubSeq(rs, start + 1, Min(start + size + 1, Len(rs)))

\* batch = rows[i:i + self.batch_size]
Batch(rs, start, size) == SubSeq(rs, start + 1, Min(start + size, Len(rs)))
CurBatch == Batch(rows, i, batch_size)

\* success_count += len(batch)
CountSucceeded(count, batch) == count + Len(batch)
\* Variant: error_count += 1
CountFailed_One(count, batch) == count + 1

\* error_count += len(batch)
CountFailed(count, batch) == count + Len(batch)
\* return error_count == 0
ReturnValue(errors) == errors = 0


\* ------------------------------------------------------------------------
\* Initial state: both tables freshly created, no operation called yet
\* ------------------------------------------------------------------------
Init ==
    /\ syb_table = <<>>
    /\ pg_table = <<>>
    /\ pg_txn = <<>>
    /\ batch_size \in 1..MaxBatch
    /\ op = "none"
    /\ pc = "idle"
    /\ rows = <<>>
    /\ i = 0
    /\ j = 0
    /\ success_count = 0
    /\ error_count = 0
    /\ result = "none"
    /\ exit_path = "none"
    /\ batch_log = <<>>
    /\ pre_batch = <<>>
    /\ executed = 0
    /\ prev_target = NoPrev
    /\ last_sync = NoWatermark
    /\ txn_aborted = FALSE
    /\ origin = NoPrev
    /\ crashed = FALSE
    /\ migrated = FALSE
    /\ r_op = "none"
    /\ r_pc = "idle"
    /\ sections = <<>>
    /\ k = 0
    /\ attempts = <<>>
    /\ success_sections = <<>>
    /\ failed_sections = <<>>
    /\ r_result = "none"
    /\ db = [tables |-> FALSE, data |-> [id \in ArchiveIds |-> 0],
             indexes |-> FALSE]
    /\ first_failure = {}
    /\ resume_track = "off"
    /\ checked_out = 0
    /\ p_op = "none"
    /\ p_exit = "none"
    /\ running = TRUE
    /\ s_pc = "main"
    /\ cycle_pc = "none"
    /\ due = FALSE
    /\ cycles = 0
    /\ finished = 0
    /\ signal_at = "none"
    /\ late_start = FALSE
    /\ fail_log = <<>>
    /\ held = [pools |-> 0, source |-> 0]
    /\ is_monitoring = FALSE
    /\ sampler = [t \in 1..MaxThreads |-> "none"]
    /\ monitor_thread = 0
    /\ caller_pc = "idle"
    /\ samples = 0
    /\ late_append = FALSE
    /\ columns = <<>>
    /\ ddl = [status |-> "none", definitions |-> <<>>]
    /\ conv = [called |-> FALSE]

\* ------------------------------------------------------------------------
\* The source table changes between operations
\* ------------------------------------------------------------------------
\* The frame of an operation that has returned is dead once its caller moves
\* on to change the source: the locals are cleared.
ResetLocals ==
    /\ op' = "none"
    /\ pc' = "idle"
    /\ rows' = <<>>
    /\ i' = 0
    /\ j' = 0
    /\ success_count' = 0
    /\ error_count' = 0
    /\ result' = "none"
    /\ exit_path' = "none"
    /\ batch_log' = <<>>
    /\ pre_batch' = <<>>
    /\ executed' = 0
    /\ prev_target' = NoPrev
    /\ last_sync' = NoWatermark
    /\ txn_aborted' = FALSE

\* A source edit: the locals of the operation that returned are dead, and
\* what the observer noted about the target no longer belongs to the source.
ForgetFrame ==
    /\ ResetLocals
    /\ origin' = NoPrev
    /\ crashed' = FALSE
    /\ migrated' = FALSE
    /\ UNCHANGED <<pg_table, pg_txn, batch_size, res_vars, env_vars>>

\* INSERT INTO employees (...) VALUES (...) with the next free id.
InsertSource(v) ==
    /\ pc # "batch"
    /\ Len(syb_table) < MaxRows
    /\ syb_table' = Append(syb_table, [id |-> Len(syb_table) + 1,
                                       salary |-> v.salary,
                                       updated_at |-> v.updated_at])
    /\ ForgetFrame

\* UPDATE employees SET salary = ... WHERE id = ..., at a later time.
UpdateSource(id, v) ==
    /\ pc # "batch"
    /\ id \in KeysOf(syb_table)
    /\ syb_table[id].updated_at < v.updated_at
    /\ syb_table' = [syb_table EXCEPT ![id].salary = v.salary,
                                      ![id].updated_at = v.updated_at]
    /\ ForgetFrame

\* DELETE FROM employees
ClearSource ==
    /\ pc # "batch"
    /\ syb_table # <<>>
    /\ syb_table' = <<>>
    /\ ForgetFrame

\* ------------------------------------------------------------------------
\* migrate_employees_data / sync_table_data
\* ------------------------------------------------------------------------
\* The connections are obtained and the source is read; with no row the
\* operation returns at once, otherwise the batch loop is entered.
Fetch(o) ==
    /\ pc \notin {"batch", "rows"}
    /\ op' = o
    /\ rows' = syb_table
    /\ pg_txn' = pg_table
    /\ success_count' = 0
    /\ error_count' = 0
    /\ i' = 0
    /\ j' = 0
    /\ batch_log' = <<>>
    /\ pre_batch' = pg_table
    /\ executed' = 0
    /\ prev_target' = IF /\ exit_path = "loop_end"
                         /\ error_count = 0
                         /\ rows = syb_table
                      THEN pg_table
                      ELSE NoPrev
    /\ IF syb_table = <<>>
       THEN /\ pc' = "done"
            /\ exit_path' = "empty"
            /\ result' = FALSE
       ELSE /\ pc' = "batch"
            /\ exit_path' = "none"
            /\ result' = "none"
    /\ last_sync' = NoWatermark
    /\ txn_aborted' = FALSE
    /\ UNCHANGED <<syb_table, pg_table, batch_size, res_vars, env_vars, origin, crashed, migrated>>

\* Variant: there is no outer except clause; the exception leaves the
\* operation.
FetchFails_Raises(o) ==
    /\ pc \notin {"batch", "rows"}
    /\ op' = o
    /\ rows' = <<>>
    /\ pg_txn' = pg_table
    /\ success_count' = 0
    /\ error_count' = 0
    /\ i' = 0
    /\ j' = 0
    /\ batch_log' = <<>>
    /\ pre_batch' = pg_table
    /\ executed' = 0
    /\ prev_target' = NoPrev
    /\ pc' = "done"
    /\ exit_path' = "raised"
    /\ result' = "raised"
    /\ last_sync' = NoWatermark
    /\ txn_aborted' = FALSE
    /\ UNCHANGED <<syb_table, pg_table, batch_size, res_vars, env_vars,
                   origin, crashed, migrated>>

\* get_sybase_connection, get_postgres_connection or the source query raise:
\* the outer except clause returns False.
FetchFails(o) ==
    /\ pc \notin {"batch", "rows"}
    /\ op' = o
    /\ rows' = <<>>
    /\ pg_txn' = pg_table
    /\ success_count' = 0
    /\ error_count' = 0
    /\ i' = 0
    /\ j' = 0
    /\ batch_log' = <<>>
    /\ pre_batch' = pg_table
    /\ executed' = 0
    /\ prev_target' = NoPrev
    /\ pc' = "done"
    /\ exit_path' = "exception"
    /\ result' = FALSE
    /\ last_sync' = NoWatermark
    /\ txn_aborted' = FALSE
    /\ UNCHANGED <<syb_table, pg_table, batch_size, res_vars, env_vars, origin, crashed, migrated>>

\* Variant: incremental_sync drops the value of sync_table_data and returns
\* True.
DelegatedReturn_True(value) == TRUE

\* return self.sync_table_data(table_name)
DelegatedReturn(value) == value

\* The for statement moves to the next batch, or the loop ends and the
\* operation returns error_count == 0.
LoopAdvance(errors) ==
    /\ i' = i + batch_size
    /\ j' = 0
    /\ IF i + batch_size < Len(rows)
       THEN /\ pc' = "batch"
            /\ exit_path' = "none"
            /\ result' = "none"
            /\ migrated' = migrated
       ELSE /\ pc' = "done"
            /\ exit_path' = "loop_end"
            /\ result' = IF op = "incremental_sync"
                         THEN DelegatedReturn(ReturnValue(errors))
                         ELSE ReturnValue(errors)
            /\ migrated' = (\/ migrated
                            \/ op \in Ops /\ origin = <<>> /\ errors = 0)

\* Variant: the except clause ends with break.
HandleBatchFailure_Breaks ==
    /\ pg_txn' = Rollback(pg_table, pg_txn)
    /\ error_count' = CountFailed(error_count, CurBatch)
    /\ batch_log' = Append(batch_log, [start |-> i, len |-> Len(CurBatch),
                                       outcome |-> "rolled_back"])
    /\ pre_batch' = pg_table
    /\ executed' = j
    /\ j' = 0
    /\ pc' = "done"
    /\ exit_path' = "loop_end"
    /\ result' = ReturnValue(error_count')
    /\ UNCHANGED <<syb_table, pg_table, batch_size, op, rows, i,
                   success_count, prev_target, res_vars, env_vars, origin, crashed, migrated, last_sync,
                   txn_aborted>>

\* except Exception: rollback, count the whole batch as failed, go on.
HandleBatchFailure ==
    /\ pg_txn' = Rollback(pg_table, pg_txn)
    /\ error_count' = CountFailed(error_count, CurBatch)
    /\ batch_log' = Append(batch_log, [start |-> i, len |-> Len(CurBatch),
                                       outcome |-> "rolled_back"])
    /\ pre_batch' = pg_table
    /\ executed' = j
    /\ LoopAdvance(error_count')
    /\ UNCHANGED <<syb_table, pg_table, batch_size, op, rows, success_count,
                   prev_target, res_vars, env_vars, origin, crashed, last_sync,
                   txn_aborted>>

\* pg_cur.execute(insert_sql, row) for the next row of the batch.
ExecuteRow ==
    /\ pc = "batch"
    /\ j < Len(CurBatch)
    /\ pg_txn' = Upsert(pg_txn, CurBatch[j + 1])
    /\ j' = j + 1
    /\ UNCHANGED <<syb_table, pg_table, batch_size, op, pc, rows, i,
                   success_count, error_count, result, exit_path, batch_log,
                   pre_batch, executed, prev_target, res_vars, env_vars, origin, crashed, migrated, last_sync,
                   txn_aborted>>

\* pg_cur.execute raises on the next row of the batch.
ExecuteRowFails ==
    /\ pc = "batch"
    /\ j < Len(CurBatch)
    /\ HandleBatchFailure

\* pg_conn.commit() after the last row of the batch.
CommitBatch ==
    /\ pc = "batch"
    /\ j = Len(CurBatch)
    /\ pg_table' = Commit(pg_table, pg_txn)
    /\ pg_txn' = Commit(pg_table, pg_txn)
    /\ success_count' = CountSucceeded(success_count, CurBatch)
    /\ batch_log' = Append(batch_log, [start |-> i, len |-> Len(CurBatch),
                                       outcome |-> "committed"])
    /\ pre_batch' = pg_table
    /\ executed' = j
    /\ LoopAdvance(error_count)
    /\ UNCHANGED <<syb_table, batch_size, op, rows, error_count, prev_target,
                   res_vars, env_vars, origin, crashed, last_sync,
                   txn_aborted>>

\* pg_conn.commit() raises.
CommitFails ==
    /\ pc = "batch"
    /\ j = Len(CurBatch)
    /\ HandleBatchFailure

Next ==
    \/ \E v \in Versions : InsertSource(v)
    \/ \E id \in Ids, v \in Versions : UpdateSource(id, v)
    \/ ClearSource
    \/ \E o \in Ops : Fetch(o)
    \/ \E o \in Ops : FetchFails(o)
    \/ ExecuteRow
    \/ ExecuteRowFails
    \/ CommitBatch
    \/ CommitFails

Spec == Init /\ [][Next]_vars

\* ------------------------------------------------------------------------
\* incremental_sync
\* ------------------------------------------------------------------------
\* Rows the source holds at most between incremental cycles.
MaxSyncRows == 2

\* Largest updated_at of the table.
RECURSIVE MaxStamp(_)
MaxStamp(T) ==
    IF T = <<>>
    THEN NoWatermark
    ELSE LET rest == MaxStamp(Tail(T))
         IN  IF Head(T).updated_at > rest THEN Head(T).updated_at ELSE rest

\* SELECT MAX(updated_at) FROM employees
Watermark(T) == MaxStamp(T)

\* Variant: the source query has no WHERE clause.
UpdatedRows_All(T, w) == T

\* Variant: the comparison of the source query is >=.
UpdatedRows_Inclusive(T, w) == SelectSeq(T, LAMBDA r : r.updated_at >= w)

\* Variant: the comparison of the source query is <.
UpdatedRows_Older(T, w) == SelectSeq(T, LAMBDA r : r.updated_at < w)

\* SELECT * FROM employees WHERE updated_at > ?
UpdatedRows(T, w) == SelectSeq(T, LAMBDA r : r.updated_at > w)

\* incremental_sync is called: the connections are obtained and the target's
\* watermark is read. Without one the call hands over to sync_table_data,
\* which reads the source and returns at once or enters its batch loop;
\* with one, the rows changed since are read and the call returns True at
\* once or enters the row loop.
IncrementalSync ==
    /\ pc \notin {"batch", "rows"}
    /\ op' = "incremental_sync"
    /\ last_sync' = Watermark(pg_table)
    /\ pg_txn' = pg_table
    /\ txn_aborted' = FALSE
    /\ success_count' = 0
    /\ error_count' = 0
    /\ i' = 0
    /\ j' = 0
    /\ batch_log' = <<>>
    /\ pre_batch' = pg_table
    /\ executed' = 0
    /\ prev_target' = NoPrev
    /\ IF last_sync' = NoWatermark
       THEN /\ rows' = syb_table
            /\ IF syb_table = <<>>
               THEN /\ pc' = "done"
                    /\ exit_path' = "empty"
                    /\ result' = DelegatedReturn(FALSE)
               ELSE /\ pc' = "batch"
                    /\ exit_path' = "none"
                    /\ result' = "none"
       ELSE /\ rows' = UpdatedRows(syb_table, last_sync')
            /\ IF rows' = <<>>
               THEN /\ pc' = "done"
                    /\ exit_path' = "no_updates"
                    /\ result' = TRUE
               ELSE /\ pc' = "rows"
                    /\ exit_path' = "none"
                    /\ result' = "none"
    /\ UNCHANGED <<syb_table, pg_table, batch_size, res_vars, env_vars, origin, crashed, migrated>>

\* A connection cannot be obtained or the watermark or source query raises,
\* in incremental_sync or in the sync_table_data it hands over to: the outer
\* except clause returns False.
IncrementalSyncFails ==
    /\ pc \notin {"batch", "rows"}
    /\ op' = "incremental_sync"
    /\ last_sync' = NoWatermark
    /\ rows' = <<>>
    /\ pg_txn' = pg_table
    /\ txn_aborted' = FALSE
    /\ success_count' = 0
    /\ error_count' = 0
    /\ i' = 0
    /\ j' = 0
    /\ batch_log' = <<>>
    /\ pre_batch' = pg_table
    /\ executed' = 0
    /\ prev_target' = NoPrev
    /\ pc' = "done"
    /\ exit_path' = "exception"
    /\ result' = FALSE
    /\ UNCHANGED <<syb_table, pg_table, batch_size, res_vars, env_vars, origin, crashed, migrated>>

\* Variant: the connection is in autocommit mode; every row's statement is
\* committed as it is executed.
SyncRow_Autocommit ==
    /\ pc = "rows"
    /\ j < Len(rows)
    /\ ~txn_aborted
    /\ pg_txn' = Upsert(pg_txn, rows[j + 1])
    /\ pg_table' = pg_txn'
    /\ success_count' = success_count + 1
    /\ batch_log' = Append(batch_log, [start |-> j, len |-> 1,
                                       outcome |-> "executed"])
    /\ j' = j + 1
    /\ UNCHANGED <<syb_table, batch_size, op, pc, rows, i, error_count,
                   result, exit_path, pre_batch, executed, prev_target,
                   last_sync, txn_aborted, res_vars, env_vars, origin,
                   crashed, migrated>>

\* pg_cur.execute(insert_sql, row) succeeds for the next selected row.
SyncRow ==
    /\ pc = "rows"
    /\ j < Len(rows)
    /\ ~txn_aborted
    /\ pg_txn' = Upsert(pg_txn, rows[j + 1])
    /\ success_count' = success_count + 1
    /\ batch_log' = Append(batch_log, [start |-> j, len |-> 1,
                                       outcome |-> "executed"])
    /\ j' = j + 1
    /\ UNCHANGED <<syb_table, pg_table, batch_size, op, pc, rows, i,
                   error_count, result, exit_path, pre_batch, executed,
                   prev_target, last_sync, txn_aborted, res_vars, env_vars, origin, crashed, migrated>>

\* pg_cur.execute raises for the next selected row and the except clause
\* logs it. An error the server reports leaves the transaction in the failed
\* state, in which every later statement is rejected; an error raised before
\* the statement is sent does not.
SyncRowFails(server_error) ==
    /\ pc = "rows"
    /\ j < Len(rows)
    /\ txn_aborted => server_error
    /\ txn_aborted' = server_error
    /\ batch_log' = Append(batch_log, [start |-> j, len |-> 1,
                                       outcome |-> "failed"])
    /\ j' = j + 1
    /\ UNCHANGED <<syb_table, pg_table, pg_txn, batch_size, op, pc, rows, i,
                   success_count, error_count, result, exit_path, pre_batch,
                   executed, prev_target, last_sync, res_vars, env_vars, origin, crashed, migrated>>

\* pg_conn.commit() after the row loop, and return True. Committing a
\* transaction in the failed state rolls it back without raising.
SyncCommit ==
    /\ pc = "rows"
    /\ j = Len(rows)
    /\ pg_table' = IF txn_aborted
                   THEN Rollback(pg_table, pg_txn)
                   ELSE Commit(pg_table, pg_txn)
    /\ pg_txn' = pg_table'
    /\ txn_aborted' = FALSE
    /\ pc' = "done"
    /\ exit_path' = "committed"
    /\ result' = TRUE
    /\ UNCHANGED <<syb_table, batch_size, op, rows, i, j, success_count,
                   error_count, batch_log, pre_batch, executed, prev_target,
                   last_sync, res_vars, env_vars, origin, crashed, migrated>>

\* pg_conn.commit() raises: the outer except clause returns False and the
\* transaction is never committed.
SyncCommitFails ==
    /\ pc = "rows"
    /\ j = Len(rows)
    /\ pg_txn' = Rollback(pg_table, pg_txn)
    /\ txn_aborted' = FALSE
    /\ pc' = "done"
    /\ exit_path' = "exception"
    /\ result' = FALSE
    /\ UNCHANGED <<syb_table, pg_table, batch_size, op, rows, i, j,
                   success_count, error_count, batch_log, pre_batch, executed,
                   prev_target, last_sync, res_vars, env_vars, origin, crashed, migrated>>

\* The source edits between two calls of incremental_sync.
SyncInsertSource(v) ==
    /\ pc # "rows"
    /\ Len(syb_table) < MaxSyncRows
    /\ InsertSource(v)

SyncUpdateSource(id, v) ==
    /\ pc # "rows"
    /\ UpdateSource(id, v)

SyncClearSource ==
    /\ pc # "rows"
    /\ ClearSource

\* UPDATE employees SET salary = 80000 WHERE id = 2: the statement leaves
\* updated_at as it was.
UpdateSalary(id, salary) ==
    /\ pc \notin {"batch", "rows"}
    /\ id \in KeysOf(syb_table)
    /\ syb_table[id].salary # salary
    /\ syb_table' = [syb_table EXCEPT ![id].salary = salary]
    /\ ForgetFrame

SyncNext ==
    \/ \E v \in Versions : SyncInsertSource(v)
    \/ \E id \in Ids, v \in Versions : SyncUpdateSource(id, v)
    \/ SyncClearSource
    \/ \E id \in Ids, salary \in Salaries : UpdateSalary(id, salary)
    \/ IncrementalSync
    \/ IncrementalSyncFails
    \/ ExecuteRow
    \/ ExecuteRowFails
    \/ CommitBatch
    \/ CommitFails
    \/ SyncRow
    \/ \E server_error \in BOOLEAN : SyncRowFails(server_error)
    \/ SyncCommit
    \/ SyncCommitFails

SyncSpec == Init /\ [][SyncNext]_vars

\* ------------------------------------------------------------------------
\* verify_migration, and runs that are cut short
\* ------------------------------------------------------------------------
\* get_table_row_count returns -1 when its query raised.
RowCountFailed == -1

\* count = cursor.fetchone()[0] of SELECT COUNT(*) FROM employees
GetTableRowCount(T, readable) == IF readable THEN Len(T) ELSE RowCountFailed

\* Variant: the comparison is postgres_count <= sybase_count.
CountsMatch_AtMost(sybase_count, postgres_count) ==
    postgres_count <= sybase_count

\* if sybase_count == postgres_count
CountsMatch(sybase_count, postgres_count) == sybase_count = postgres_count

\* verify_migration: both counts are read; False when one could not be,
\* else whether they are equal.
VerifyMigration(syb_readable, pg_readable) ==
    LET sybase_count == GetTableRowCount(syb_table, syb_readable)
        postgres_count == GetTableRowCount(pg_table, pg_readable)
    IN  /\ pc \notin {"batch", "rows"}
        /\ op' = "verify_migration"
        /\ pc' = "done"
        /\ IF sybase_count = RowCountFailed \/ postgres_count = RowCountFailed
           THEN /\ exit_path' = "count_failed"
                /\ result' = FALSE
           ELSE /\ exit_path' = "compared"
                /\ result' = CountsMatch(sybase_count, postgres_count)
        /\ rows' = <<>>
        /\ i' = 0
        /\ j' = 0
        /\ success_count' = 0
        /\ error_count' = 0
        /\ batch_log' = <<>>
        /\ pre_batch' = pg_table
        /\ executed' = 0
        /\ prev_target' = NoPrev
        /\ last_sync' = NoWatermark
        /\ txn_aborted' = FALSE
        /\ pg_txn' = pg_table
        /\ UNCHANGED <<syb_table, pg_table, batch_size, origin, crashed, migrated,
                       res_vars, env_vars>>

\* The observer notes the target between two operations.
MarkTarget ==
    /\ pc \notin {"batch", "rows"}
    /\ origin = NoPrev
    /\ ResetLocals
    /\ origin' = pg_table
    /\ crashed' = FALSE
    /\ migrated' = FALSE
    /\ UNCHANGED <<syb_table, pg_table, pg_txn, batch_size, res_vars, env_vars>>

\* The process is killed inside the batch loop: before the first statement,
\* inside a batch or between two batches. The server drops the transaction
\* that was open; the next process starts with no locals.
Crash ==
    /\ pc = "batch"
    /\ ResetLocals
    /\ pg_txn' = Rollback(pg_table, pg_txn)
    /\ crashed' = TRUE
    /\ UNCHANGED <<syb_table, pg_table, batch_size, origin, migrated,
                   res_vars, env_vars>>

\* create_table_postgres: DROP TABLE IF EXISTS employees CASCADE, then
\* CREATE TABLE employees, committed; the target table is new and empty.
CreateTablePostgres ==
    /\ pc \notin {"batch", "rows"}
    /\ pg_table # <<>> \/ origin # <<>>
    /\ ResetLocals
    /\ pg_table' = <<>>
    /\ pg_txn' = <<>>
    /\ origin' = <<>>
    /\ crashed' = FALSE
    /\ migrated' = FALSE
    /\ UNCHANGED <<syb_table, batch_size, res_vars, env_vars>>

VerifyNext ==
    \/ \E v \in Versions : SyncInsertSource(v)
    \/ \E id \in Ids, v \in Versions : SyncUpdateSource(id, v)
    \/ SyncClearSource
    \/ CreateTablePostgres
    \/ \E o \in Ops : Fetch(o)
    \/ \E o \in Ops : FetchFails(o)
    \/ ExecuteRow
    \/ ExecuteRowFails
    \/ CommitBatch
    \/ CommitFails
    \/ IncrementalSync
    \/ IncrementalSyncFails
    \/ SyncRow
    \/ \E server_error \in BOOLEAN : SyncRowFails(server_error)
    \/ SyncCommit
    \/ SyncCommitFails
    \/ \E syb_readable, pg_readable \in BOOLEAN :
            VerifyMigration(syb_readable, pg_readable)

VerifySpec == Init /\ [][VerifyNext]_vars

RecoveryNext ==
    \/ \E v \in Versions : SyncInsertSource(v)
    \/ \E id \in Ids, v \in Versions : SyncUpdateSource(id, v)
    \/ MarkTarget
    \/ \E o \in Ops : Fetch(o)
    \/ \E o \in Ops : FetchFails(o)
    \/ ExecuteRow
    \/ ExecuteRowFails
    \/ CommitBatch
    \/ CommitFails
    \/ Crash

RecoverySpec == Init /\ [][RecoveryNext]_vars

\* ------------------------------------------------------------------------
\* The target connection pool of one DataMigration object
\* ------------------------------------------------------------------------
\* pool.SimpleConnectionPool(1, 10, dsn): at most ten connections.
PoolMaxConn == 10

\* getconn() raises PoolError when every connection is in use.
PoolExhausted(n) == n >= PoolMaxConn

\* conn = self.postgres_pool.getconn()
GetConn(n) == n + 1

\* self.postgres_pool.putconn(conn)
PutConn(n) == n - 1

\* The ways a call of migrate_employees_data or sync_table_data can go: the
\* source connection fails before the pool is asked, a statement raises
\* with the connection checked out, the source is empty, the loop ends.
BatchRoutes == {"no_source_conn", "query_error", "empty", "loop_end"}

\* What such a call leaves of the pool when it finds n connections checked
\* out, and how it ends. Only the end of the batch loop reaches
\* return_postgres_connection.
BatchCallPool(n, route) ==
    IF route = "no_source_conn"
    THEN [checked_out |-> n, exit |-> "exception"]
    ELSE IF PoolExhausted(n)
    THEN [checked_out |-> n, exit |-> "pool_exhausted"]
    ELSE CASE route = "query_error" ->
                [checked_out |-> GetConn(n), exit |-> "exception"]
           [] route = "empty" ->
                [checked_out |-> GetConn(n), exit |-> "empty"]
           [] route = "loop_end" ->
                [checked_out |-> PutConn(GetConn(n)), exit |-> "loop_end"]

\* migrate_employees_data or sync_table_data, from call to return.
PoolBatchCall(o, route) ==
    /\ p_op' = o
    /\ checked_out' = BatchCallPool(checked_out, route).checked_out
    /\ p_exit' = BatchCallPool(checked_out, route).exit
    /\ UNCHANGED <<mig_vars, res_vars, sched_vars, mon_vars, schema_vars>>

\* The ways a call of incremental_sync can go; without a watermark it
\* calls sync_table_data while it holds its own connection.
IncrementalRoutes == {"no_source_conn", "query_error", "no_updates",
                      "committed", "delegated"}

\* incremental_sync, from call to return. Only the end of the row loop
\* reaches return_postgres_connection.
PoolIncrementalCall(route, sub_route) ==
    /\ p_op' = "incremental_sync"
    /\ IF route = "no_source_conn"
       THEN /\ checked_out' = checked_out
            /\ p_exit' = "exception"
       ELSE IF PoolExhausted(checked_out)
       THEN /\ checked_out' = checked_out
            /\ p_exit' = "pool_exhausted"
       ELSE CASE route = "query_error" ->
                    /\ checked_out' = GetConn(checked_out)
                    /\ p_exit' = "exception"
              [] route = "no_updates" ->
                    /\ checked_out' = GetConn(checked_out)
                    /\ p_exit' = "no_updates"
              [] route = "committed" ->
                    /\ checked_out' = PutConn(GetConn(checked_out))
                    /\ p_exit' = "committed"
              [] route = "delegated" ->
                    LET sub == BatchCallPool(GetConn(checked_out), sub_route)
                    IN  /\ checked_out' = sub.checked_out
                        /\ p_exit' = sub.exit
    /\ UNCHANGED <<mig_vars, res_vars, sched_vars, mon_vars, schema_vars>>

\* verify_migration, from call to return: get_table_row_count reads the
\* source count, then checks a connection out for the target count and puts
\* it back unless the query raised.
PoolVerifyCall(pg_readable) ==
    /\ p_op' = "verify_migration"
    /\ IF PoolExhausted(checked_out)
       THEN /\ checked_out' = checked_out
            /\ p_exit' = "pool_exhausted"
       ELSE IF pg_readable
       THEN /\ checked_out' = PutConn(GetConn(checked_out))
            /\ p_exit' = "compared"
       ELSE /\ checked_out' = GetConn(checked_out)
            /\ p_exit' = "count_failed"
    /\ UNCHANGED <<mig_vars, res_vars, sched_vars, mon_vars, schema_vars>>

PoolNext ==
    \/ \E o \in Ops, route \in BatchRoutes : PoolBatchCall(o, route)
    \/ \E route \in IncrementalRoutes, sub_route \in BatchRoutes :
            PoolIncrementalCall(route, sub_route)
    \/ \E pg_readable \in BOOLEAN : PoolVerifyCall(pg_readable)

PoolSpec == Init /\ [][PoolNext]_vars

\* ------------------------------------------------------------------------
\* scheduled_sync: main, run_scheduler, sync_job and the signal handler
\* ------------------------------------------------------------------------
\* main sets signal_handler for SIGINT and SIGTERM and calls run_scheduler,
\* which registers the job.
InstallHandlers ==
    /\ s_pc = "main"
    /\ s_pc' = "startup"
    /\ UNCHANGED <<running, cycle_pc, due, cycles, finished, signal_at,
                   late_start, cycle_vars, mig_vars, res_vars, pool_vars,
                   mon_vars, schema_vars>>

\* A signal that arrives before the handlers are set ends the process.
KilledBeforeHandlers ==
    /\ s_pc = "main"
    /\ s_pc' = "killed"
    /\ UNCHANGED <<running, cycle_pc, due, cycles, finished, signal_at,
                   late_start, cycle_vars, mig_vars, res_vars, pool_vars,
                   mon_vars, schema_vars>>

\* sync_job is entered.
StartCycle(caller) ==
    /\ s_pc' = caller
    /\ cycle_pc' = "connect"
    /\ cycles' = cycles + 1
    /\ late_start' = (late_start \/ signal_at # "none")
    /\ fail_log' = Append(fail_log, FALSE)
    /\ held' = held

\* run_scheduler calls sync_job once before the loop, whatever the flag.
InitialSync ==
    /\ s_pc = "startup"
    /\ StartCycle("initial_sync")
    /\ UNCHANGED <<running, due, finished, signal_at, mig_vars, res_vars,
                   pool_vars, mon_vars, schema_vars>>

\* sync_job returns to run_scheduler: to the loop test after the initial
\* call, to time.sleep(1) after a scheduled one.
EndCycle ==
    /\ cycle_pc' = "none"
    /\ finished' = finished + 1
    /\ s_pc' = IF s_pc = "initial_sync" THEN "test" ELSE "sleep"

\* The stage of sync_job failed: the call that began last is marked.
MarkFailed(log) == [log EXCEPT ![Len(log)] = TRUE]

\* Variant: sync_job has no try statement; an exception of the first stage
\* leaves it, ends run_scheduler when it comes from the initial call and is
\* caught by the loop when it comes from a scheduled one.
CycleStep_Raises(ok) ==
    /\ cycle_pc # "none"
    /\ CASE cycle_pc = "connect" /\ ok ->
                /\ cycle_pc' = "sync"
                /\ fail_log' = fail_log
                /\ UNCHANGED <<s_pc, finished>>
         [] cycle_pc = "connect" /\ ~ok ->
                /\ cycle_pc' = "none"
                /\ finished' = finished + 1
                /\ fail_log' = MarkFailed(fail_log)
                /\ s_pc' = IF s_pc = "initial_sync" THEN "exited" ELSE "sleep"
         [] cycle_pc = "sync" ->
                /\ cycle_pc' = "close"
                /\ fail_log' = IF ok THEN fail_log ELSE MarkFailed(fail_log)
                /\ UNCHANGED <<s_pc, finished>>
         [] cycle_pc = "close" ->
                /\ ok
                /\ fail_log' = fail_log
                /\ EndCycle
    /\ UNCHANGED <<running, due, cycles, signal_at, late_start, held,
                   mig_vars, res_vars, pool_vars, mon_vars, schema_vars>>

\* What a sync_job call holds open: target pools and source connections.
NothingHeld == [pools |-> 0, source |-> 0]

\* DatabaseConnections() and DataMigration() each make a pool of their own;
\* test_connections opens the source connection of the first.
Connected(h) == [pools |-> h.pools + 2, source |-> h.source + 1]

\* incremental_sync opens the source connection of the DataMigration object.
Synced(h) == [h EXCEPT !.source = h.source + 1]

\* db_connections.close_all(): the source connection and the pool of the
\* DatabaseConnections object that sync_job made itself.
CloseAll(h) == [pools |-> h.pools - 1, source |-> h.source - 1]

\* One stage of sync_job: the connections are set up and tested (a failed
\* test or an exception ends the job, with what was opened until then),
\* incremental_sync runs its loop and commit and returns True or False,
\* close_all ends the job.
CycleStep(ok) ==
    /\ cycle_pc # "none"
    /\ CASE cycle_pc = "connect" /\ ok ->
                /\ cycle_pc' = "sync"
                /\ fail_log' = fail_log
                /\ held' = Connected(held)
                /\ UNCHANGED <<s_pc, finished>>
         [] cycle_pc = "connect" /\ ~ok ->
                /\ fail_log' = MarkFailed(fail_log)
                /\ \E pools \in 0..2, source \in 0..1 :
                      /\ source = 1 => pools = 2
                      /\ held' = [pools |-> held.pools + pools,
                                  source |-> held.source + source]
                /\ EndCycle
         [] cycle_pc = "sync" ->
                /\ cycle_pc' = "close"
                /\ fail_log' = IF ok THEN fail_log ELSE MarkFailed(fail_log)
                /\ held' \in IF ok THEN {Synced(held)}
                                   ELSE {held, Synced(held)}
                /\ UNCHANGED <<s_pc, finished>>
         [] cycle_pc = "close" ->
                /\ ok
                /\ fail_log' = fail_log
                /\ held' = CloseAll(held)
                /\ EndCycle
    /\ UNCHANGED <<running, due, cycles, signal_at, late_start, mig_vars,
                   res_vars, pool_vars, mon_vars, schema_vars>>

\* Between two calls the runtime may finalize the objects of the calls that
\* returned, which closes what they held; when it does is not fixed by
\* the code.
Finalize ==
    /\ cycle_pc = "none"
    /\ held # NothingHeld
    /\ held' = NothingHeld
    /\ UNCHANGED <<running, s_pc, cycle_pc, due, cycles, finished, signal_at,
                   late_start, fail_log, mig_vars, res_vars, pool_vars,
                   mon_vars, schema_vars>>

\* while running:
LoopTest ==
    /\ s_pc = "test"
    /\ s_pc' = IF running THEN "pending" ELSE "exited"
    /\ UNCHANGED <<running, cycle_pc, due, cycles, finished, signal_at,
                   late_start, cycle_vars, mig_vars, res_vars, pool_vars,
                   mon_vars, schema_vars>>

\* Variant: the due job is handed to a thread of its own and run_pending
\* returns at once.
RunPending_Threaded ==
    /\ s_pc = "pending"
    /\ due => cycles < MaxCycles
    /\ s_pc' = "sleep"
    /\ IF due
       THEN /\ cycle_pc' = "connect"
            /\ cycles' = cycles + 1
            /\ late_start' = (late_start \/ signal_at # "none")
            /\ fail_log' = Append(fail_log, FALSE)
            /\ held' = held
            /\ due' = FALSE
       ELSE UNCHANGED <<cycle_pc, cycles, late_start, due, cycle_vars>>
    /\ UNCHANGED <<running, finished, signal_at, mig_vars, res_vars,
                   pool_vars, mon_vars, schema_vars>>

\* schedule.run_pending(): the job is called when it is due.
RunPending ==
    /\ s_pc = "pending"
    /\ due => cycles < MaxCycles
    /\ IF due
       THEN /\ StartCycle("job")
            /\ due' = FALSE
       ELSE /\ s_pc' = "sleep"
            /\ UNCHANGED <<cycle_pc, cycles, late_start, due, cycle_vars>>
    /\ UNCHANGED <<running, finished, signal_at, mig_vars, res_vars,
                   pool_vars, mon_vars, schema_vars>>

\* time.sleep(1) ends.
Sleep ==
    /\ s_pc = "sleep"
    /\ s_pc' = "test"
    /\ UNCHANGED <<running, cycle_pc, due, cycles, finished, signal_at,
                   late_start, cycle_vars, mig_vars, res_vars, pool_vars,
                   mon_vars, schema_vars>>

\* The interval of the job elapses.
Tick ==
    /\ s_pc \notin {"main", "startup", "exited", "killed"}
    /\ ~due
    /\ cycles < MaxCycles
    /\ due' = TRUE
    /\ UNCHANGED <<running, s_pc, cycle_pc, cycles, finished, signal_at,
                   late_start, cycle_vars, mig_vars, res_vars, pool_vars,
                   mon_vars, schema_vars>>

\* Variant: the handlers are Python's own; the signal raises
\* KeyboardInterrupt in the main thread, which leaves sync_job and
\* run_scheduler.
Signal_DefaultHandler ==
    /\ s_pc \notin {"main", "exited", "killed"}
    /\ signal_at = "none"
    /\ signal_at' = s_pc
    /\ cycle_pc' = "none"
    /\ s_pc' = IF s_pc \in {"startup", "initial_sync"}
               THEN "killed"
               ELSE "exited"
    /\ UNCHANGED <<running, due, cycles, finished, late_start, mig_vars,
                   res_vars, pool_vars, mon_vars, cycle_vars,
                   schema_vars>>

\* SIGINT or SIGTERM arrives: signal_handler runs in the main thread
\* between two of its steps, sets running = False and returns.
Signal ==
    /\ s_pc \notin {"main", "exited", "killed"}
    /\ signal_at = "none"
    /\ signal_at' = s_pc
    /\ running' = FALSE
    /\ UNCHANGED <<s_pc, cycle_pc, due, cycles, finished, late_start,
                   mig_vars, res_vars, pool_vars, mon_vars, cycle_vars,
                   schema_vars>>

SchedNext ==
    \/ InstallHandlers
    \/ KilledBeforeHandlers
    \/ InitialSync
    \/ \E ok \in BOOLEAN : CycleStep(ok)
    \/ LoopTest
    \/ RunPending
    \/ Sleep
    \/ Tick
    \/ Signal
    \/ Finalize

SchedSpec == Init /\ [][SchedNext]_vars

\* The main thread is never blocked for good: a stage of sync_job, the loop
\* test, run_pending and time.sleep(1) each end.
FairSchedSpec ==
    /\ SchedSpec
    /\ WF_vars(\E ok \in BOOLEAN : CycleStep(ok))
    /\ WF_vars(LoopTest)
    /\ WF_vars(RunPending)
    /\ WF_vars(Sleep)

\* ------------------------------------------------------------------------
\* PerformanceMonitor: the caller and the sampler threads
\* ------------------------------------------------------------------------
\* start_monitoring: the flag is set, the list is replaced by an empty one
\* and a new daemon thread runs _monitor_loop.
StartMonitoring(t) ==
    /\ caller_pc \in {"idle", "stopped", "read"}
    /\ ~is_monitoring
    /\ sampler[t] = "none"
    /\ \A u \in 1..(t - 1) : sampler[u] # "none"
    /\ is_monitoring' = TRUE
    /\ samples' = 0
    /\ sampler' = [sampler EXCEPT ![t] = "test"]
    /\ monitor_thread' = t
    /\ caller_pc' = "monitoring"
    /\ UNCHANGED <<late_append, mig_vars, res_vars, pool_vars, sched_vars,
                   schema_vars>>

\* stop_monitoring clears the flag and calls monitor_thread.join(timeout=5).
StopMonitoring ==
    /\ caller_pc = "monitoring"
    /\ is_monitoring
    /\ is_monitoring' = FALSE
    /\ caller_pc' = "joining"
    /\ UNCHANGED <<sampler, monitor_thread, samples, late_append, mig_vars,
                   res_vars, pool_vars, sched_vars,
                   schema_vars>>

\* join returns because the thread has ended; stop_monitoring returns.
JoinReturns ==
    /\ caller_pc = "joining"
    /\ sampler[monitor_thread] = "exited"
    /\ caller_pc' = "stopped"
    /\ UNCHANGED <<is_monitoring, sampler, monitor_thread, samples,
                   late_append, mig_vars, res_vars, pool_vars, sched_vars,
                   schema_vars>>

\* join returns because five seconds have passed with the thread still in
\* _collect_metrics or in time.sleep(monitoring_interval); stop_monitoring
\* returns.
JoinTimesOut ==
    /\ caller_pc = "joining"
    /\ sampler[monitor_thread] \in {"collect", "sleep"}
    /\ caller_pc' = "stopped"
    /\ UNCHANGED <<is_monitoring, sampler, monitor_thread, samples,
                   late_append, mig_vars, res_vars, pool_vars, sched_vars,
                   schema_vars>>

\* The caller reads performance_data: get_summary_stats and
\* save_metrics_to_file after stop_monitoring.
ReadSamples ==
    /\ caller_pc \in {"stopped", "reading"}
    /\ caller_pc' = IF caller_pc = "stopped" THEN "reading" ELSE "read"
    /\ UNCHANGED <<is_monitoring, sampler, monitor_thread, samples,
                   late_append, mig_vars, res_vars, pool_vars, sched_vars,
                   schema_vars>>

\* while self.is_monitoring:
SamplerTest(t) ==
    /\ sampler[t] = "test"
    /\ sampler' = [sampler EXCEPT
                      ![t] = IF is_monitoring THEN "collect" ELSE "exited"]
    /\ UNCHANGED <<is_monitoring, monitor_thread, caller_pc, samples,
                   late_append, mig_vars, res_vars, pool_vars, sched_vars,
                   schema_vars>>

\* metrics = self._collect_metrics() returns and
\* self.performance_data.append(metrics) runs; the thread goes to sleep.
SamplerAppend(t) ==
    /\ sampler[t] = "collect"
    /\ samples < MaxSamples
    /\ samples' = samples + 1
    /\ late_append' = (late_append
                          \/ caller_pc \in {"stopped", "reading", "read"})
    /\ sampler' = [sampler EXCEPT ![t] = "sleep"]
    /\ UNCHANGED <<is_monitoring, monitor_thread, caller_pc, mig_vars,
                   res_vars, pool_vars, sched_vars,
                   schema_vars>>

\* _collect_metrics raises: nothing is appended, the thread goes to sleep.
SamplerCollectFails(t) ==
    /\ sampler[t] = "collect"
    /\ sampler' = [sampler EXCEPT ![t] = "sleep"]
    /\ UNCHANGED <<is_monitoring, monitor_thread, caller_pc, samples,
                   late_append, mig_vars, res_vars, pool_vars, sched_vars,
                   schema_vars>>

\* time.sleep(self.monitoring_interval) ends.
SamplerWake(t) ==
    /\ sampler[t] = "sleep"
    /\ sampler' = [sampler EXCEPT ![t] = "test"]
    /\ UNCHANGED <<is_monitoring, monitor_thread, caller_pc, samples,
                   late_append, mig_vars, res_vars, pool_vars, sched_vars,
                   schema_vars>>

MonitorNext ==
    \/ \E t \in 1..MaxThreads : StartMonitoring(t)
    \/ StopMonitoring
    \/ JoinReturns
    \/ JoinTimesOut
    \/ ReadSamples
    \/ \E t \in 1..MaxThreads : SamplerTest(t)
    \/ \E t \in 1..MaxThreads : SamplerAppend(t)
    \/ \E t \in 1..MaxThreads : SamplerCollectFails(t)
    \/ \E t \in 1..MaxThreads : SamplerWake(t)

MonitorSpec == Init /\ [][MonitorNext]_vars

\* ------------------------------------------------------------------------
\* SchemaMigration: the type mapping and the generated CREATE TABLE
\* ------------------------------------------------------------------------
\* A type name is a word in one of three spellings: all lower case
\* ("varchar"), all upper case ("VARCHAR") or capitalised ("Varchar").
Spellings == {"lower", "upper", "capitalised"}
TypeName(word, spelling) == [word |-> word, spelling |-> spelling]

\* Variant: the name is looked up as it was given.
Lower_Identity(name) == name

\* sybase_type.lower()
Lower(name) == [name EXCEPT !.spelling = "lower"]

\* A target type: its base name and the numbers in its parentheses.
PgType(base, args) == [base |-> base, args |-> args]

\* The default of type_mapping.get
Text == PgType("TEXT", <<>>)

\* The keys of type_mapping
MappedWords ==
    {"int", "smallint", "bigint", "tinyint", "decimal", "numeric", "float",
     "real", "money", "smallmoney", "char", "varchar", "text", "nchar",
     "nvarchar", "ntext", "binary", "varbinary", "image", "bit", "datetime",
     "smalldatetime", "date", "time", "timestamp"}

\* Type names of the source that type_mapping has no key for.
UnmappedWords == {"unichar", "univarchar"}

\* type_mapping, built from the arguments of the call
TypeMapping(length, precision, scale) ==
    [key \in {TypeName(w, "lower") : w \in MappedWords} |->
        CASE key.word = "int" -> PgType("INTEGER", <<>>)
          [] key.word \in {"smallint", "tinyint"} -> PgType("SMALLINT", <<>>)
          [] key.word = "bigint" -> PgType("BIGINT", <<>>)
          [] key.word \in {"decimal", "numeric"} ->
                PgType("NUMERIC", <<precision, scale>>)
          [] key.word = "float" -> PgType("DOUBLE PRECISION", <<>>)
          [] key.word = "real" -> PgType("REAL", <<>>)
          [] key.word = "money" -> PgType("NUMERIC", <<19, 4>>)
          [] key.word = "smallmoney" -> PgType("NUMERIC", <<10, 4>>)
          [] key.word \in {"char", "nchar"} -> PgType("CHAR", <<length>>)
          [] key.word \in {"varchar", "nvarchar"} ->
                PgType("VARCHAR", <<length>>)
          [] key.word \in {"text", "ntext"} -> Text
          [] key.word \in {"binary", "varbinary", "image"} ->
                PgType("BYTEA", <<>>)
          [] key.word = "bit" -> PgType("BOOLEAN", <<>>)
          [] key.word \in {"datetime", "smalldatetime", "timestamp"} ->
                PgType("TIMESTAMP", <<>>)
          [] key.word = "date" -> PgType("DATE", <<>>)
          [] key.word = "time" -> PgType("TIME", <<>>)]

\* return type_mapping.get(sybase_type.lower(), 'TEXT')
ConvertSybaseToPostgresType(sybase_type, length, precision, scale) ==
    LET type_mapping == TypeMapping(length, precision, scale)
        key == Lower(sybase_type)
    IN  IF key \in DOMAIN type_mapping THEN type_mapping[key] ELSE Text

\* The values of length, prec and scale in the calls checked.
Lengths == {1, 255}
Precisions == {10, 18}
Scales == {0, 2}

\* The names of the columns of a descriptor, by position (ORDER BY c.colid).
ColumnNames == <<"id", "name", "dept", "salary", "updated_at">>

\* The types of the columns of the descriptors checked: one without
\* arguments in upper case, one with a length, one with precision and
\* scale, one that is not mapped.
DescribedTypes ==
    {[data_type |-> TypeName("int", "upper"), length |-> 4, prec |-> 10,
      scale |-> 0],
     [data_type |-> TypeName("varchar", "lower"), length |-> 255,
      prec |-> 0, scale |-> 0],
     [data_type |-> TypeName("numeric", "lower"), length |-> 9, prec |-> 18,
      scale |-> 2],
     [data_type |-> TypeName("univarchar", "lower"), length |-> 255,
      prec |-> 0, scale |-> 0]}

NoDdl == [status |-> "none", definitions |-> <<>>]
NoConv == [called |-> FALSE]

\* col_def = f"{col_name} {pg_type}", with " NOT NULL" when the column is
\* not nullable
ColumnDefinition(col) ==
    [kind |-> "column",
     name |-> col.column_name,
     type |-> ConvertSybaseToPostgresType(col.data_type, col.length, col.prec,
                                          col.scale),
     not_null |-> ~col.isnullable,
     keys |-> <<>>]

\* f"PRIMARY KEY ({', '.join(primary_keys)})"
PrimaryKeyConstraint(primary_keys) ==
    [kind |-> "primary_key", name |-> "", type |-> Text, not_null |-> FALSE,
     keys |-> primary_keys]

\* primary_keys: the names of the key columns, as the loop appends them
PrimaryKeys(cols) ==
    LET key_columns == SelectSeq(cols, LAMBDA col : col.is_primary_key)
    IN  [n \in 1..Len(key_columns) |-> key_columns[n].column_name]

\* Variant: the key constraint is the first entry of the list.
Definitions_KeyFirst(column_definitions, primary_keys) ==
    IF primary_keys # <<>>
    THEN <<PrimaryKeyConstraint(primary_keys)>> \o column_definitions
    ELSE column_definitions

\* if primary_keys: column_definitions.append(...)
Definitions(column_definitions, primary_keys) ==
    IF primary_keys # <<>>
    THEN Append(column_definitions, PrimaryKeyConstraint(primary_keys))
    ELSE column_definitions

\* get_sybase_table_schema: the cursor yields the row of the next column.
DescribeColumn(t, isnullable, is_primary_key) ==
    /\ Len(columns) < MaxColumns
    /\ columns' = Append(columns,
                         [column_name |-> ColumnNames[Len(columns) + 1],
                          data_type |-> t.data_type,
                          length |-> t.length,
                          prec |-> t.prec,
                          scale |-> t.scale,
                          isnullable |-> isnullable,
                          is_primary_key |-> is_primary_key])
    /\ ddl' = NoDdl
    /\ conv' = NoConv
    /\ UNCHANGED <<mig_vars, res_vars, pool_vars, sched_vars, mon_vars>>

\* generate_postgres_schema: None for an empty descriptor, else the list
\* of the column definitions followed by the key constraint, if any.
GeneratePostgresSchema ==
    /\ ddl.status = "none"
    /\ ddl' = IF columns = <<>>
              THEN [status |-> "None", definitions |-> <<>>]
              ELSE [status |-> "ok",
                    definitions |->
                        Definitions([n \in 1..Len(columns) |->
                                        ColumnDefinition(columns[n])],
                                    PrimaryKeys(columns))]
    /\ conv' = NoConv
    /\ UNCHANGED <<columns, mig_vars, res_vars, pool_vars, sched_vars,
                   mon_vars>>

\* convert_sybase_to_postgres_type is called on its own, with no
\* descriptor at hand.
ConvertType(sybase_type, length, precision, scale) ==
    /\ columns = <<>>
    /\ conv' = [called |-> TRUE,
                sybase_type |-> sybase_type,
                length |-> length,
                precision |-> precision,
                scale |-> scale,
                result |-> ConvertSybaseToPostgresType(sybase_type, length,
                                                      precision, scale)]
    /\ ddl' = NoDdl
    /\ UNCHANGED <<columns, mig_vars, res_vars, pool_vars, sched_vars,
                   mon_vars>>

SchemaNext ==
    \/ \E t \in DescribedTypes, isnullable \in BOOLEAN,
          is_primary_key \in BOOLEAN :
            DescribeColumn(t, isnullable, is_primary_key)
    \/ GeneratePostgresSchema
    \/ \E w \in MappedWords \cup UnmappedWords, sp \in Spellings,
          length \in Lengths, precision \in Precisions, scale \in Scales :
            ConvertType(TypeName(w, sp), length, precision, scale)

SchemaSpec == Init /\ [][SchemaNext]_vars


\* ------------------------------------------------------------------------
\* Properties of the batch migration (checked under Spec)
\* ------------------------------------------------------------------------
Last(seq) == seq[Len(seq)]

\* The rows of the batch a log entry stands for.
EntryRows(e) == SubSeq(rows, e.start + 1, e.start + e.len)

\* Number of batches range(0, n, size) yields.
BatchCount(n, size) == (n + size - 1) \div size

\* Rows in the logged batches that ended with the given outcome.
RECURSIVE LoggedRows(_, _)
LoggedRows(log, outcome) ==
    IF log = <<>>
    THEN 0
    ELSE LoggedRows(SubSeq(log, 1, Len(log) - 1), outcome)
         + (IF Last(log).outcome = outcome THEN Last(log).len ELSE 0)

\* C1: when the batch loop of a run over N >= 1 rows ends, whatever batches
\* failed, success_count + error_count = N.
C1_CountsAddUp ==
    exit_path = "loop_end" =>
        /\ Len(rows) >= 1
        /\ success_count + error_count = Len(rows)

\* C1 witness: a run over three rows in batches of two ended with one batch
\* committed and one rolled back.
C1_Witness ==
    /\ exit_path = "loop_end"
    /\ Len(rows) = 3
    /\ batch_size = 2
    /\ success_count > 0
    /\ error_count > 0

\* C2: once a batch in which a statement failed has been handled, the target
\* (committed, and as seen by the connection) holds none of that batch's
\* writes, and the failure count has grown by the full batch length.
C2_BatchAtomic ==
    /\ \A n \in 1..Len(batch_log) :
          batch_log[n].len = Min(batch_size, Len(rows) - batch_log[n].start)
    /\ error_count = LoggedRows(batch_log, "rolled_back")
    /\ (batch_log # <<>> /\ Last(batch_log).outcome = "rolled_back") =>
          /\ pg_table = pre_batch
          /\ j = 0 => pg_txn = pre_batch

\* C2 witness: a two-row batch failed on its second row after the first row's
\* upsert had changed the connection's view of the table.
C2_Witness ==
    /\ batch_log # <<>>
    /\ Last(batch_log).outcome = "rolled_back"
    /\ Last(batch_log).len = 2
    /\ executed = 1
    /\ j = 0
    /\ Upsert(pre_batch, EntryRows(Last(batch_log))[1]) # pre_batch
    /\ pg_txn = pre_batch
    /\ error_count >= 2

C4_SuccessIffNoFailures ==
    exit_path \in {"empty", "loop_end"} =>
        /\ result \in BOOLEAN
        /\ result = TRUE <=> error_count = 0

\* C5: a run over an empty source table is a no-op success: it returns True
\* with both counts 0 and the target as it was.
C5_EmptySourceSucceeds ==
    exit_path = "empty" =>
        /\ result = TRUE
        /\ success_count = 0
        /\ error_count = 0
        /\ pg_table = pre_batch

\* C6: two failure-free runs in a row over the same source rows: the target
\* after the second run is the target after the first, row for row.
C6_RerunIdempotent ==
    (exit_path = "loop_end" /\ error_count = 0 /\ prev_target # NoPrev) =>
        pg_table = prev_target

\* C6 witness: the second of two failure-free runs over three rows has ended.
C6_Witness ==
    /\ exit_path = "loop_end"
    /\ error_count = 0
    /\ prev_target # NoPrev
    /\ Len(rows) = 3
    /\ pg_table = prev_target

\* C7: after a batch commits, every row of the batch has exactly one target
\* row with its key, carrying the incoming non-key values, and the target
\* rows with other keys are the ones that were there before the batch.
C7_UpsertSemantics ==
    (batch_log # <<>> /\ Last(batch_log).outcome = "committed") =>
        LET batch == EntryRows(Last(batch_log))
            batch_keys == KeysOf(batch)
        IN  /\ \A m \in 1..Len(batch) :
                  /\ Cardinality(RowsWithKey(pg_table, batch[m].id)) = 1
                  /\ \A t \in RowsWithKey(pg_table, batch[m].id) :
                        /\ pg_table[t].salary = batch[m].salary
                        /\ pg_table[t].updated_at = batch[m].updated_at
            /\ \A id \in Ids \ batch_keys :
                  /\ Cardinality(RowsWithKey(pg_table, id))
                        = Cardinality(RowsWithKey(pre_batch, id))
                  /\ \A t \in RowsWithKey(pg_table, id) :
                        \E u \in RowsWithKey(pre_batch, id) :
                            pg_table[t] = pre_batch[u]

\* C7 witness: a committed two-row batch updated a row whose key was in the
\* target with other values, inserted a row whose key was absent, and left a
\* third key alone.
C7_Witness ==
    /\ batch_log # <<>>
    /\ Last(batch_log).outcome = "committed"
    /\ LET batch == EntryRows(Last(batch_log))
       IN  /\ \E m \in 1..Len(batch) :
                 /\ HasKey(pre_batch, batch[m].id)
                 /\ \A u \in RowsWithKey(pre_batch, batch[m].id) :
                       pre_batch[u].salary # batch[m].salary
           /\ \E m \in 1..Len(batch) : ~HasKey(pre_batch, batch[m].id)
           /\ \E id \in KeysOf(pre_batch) : id \notin KeysOf(batch)
           /\ \A m \in 1..Len(batch) :
                 \E t \in 1..Len(pg_table) : pg_table[t] = batch[m]

\* ------------------------------------------------------------------------
\* backup_restore.py
\* ------------------------------------------------------------------------
\* Section lists restore_backup can be called with.
RECURSIVE SectionLists(_)
SectionLists(n) ==
    IF n = 0
    THEN {<<>>}
    ELSE LET shorter == SectionLists(n - 1)
         IN  shorter \cup {Append(l, s) : l \in shorter, s \in SectionNames}

\* sections=None: restore_backup takes the full-restore branch.
NoSections == <<"all sections">>

\* _restore_section: True when pg_restore exits 0, False on
\* CalledProcessError; any other exception leaves the function.
RestoreSectionReturns(outcome) == outcome = "ok"
RestoreSectionRaises(outcome) == outcome = "other_exception"

\* One pg_restore invocation, as the operation's observer records it.
Attempt(section, outcome) == [section |-> section, outcome |-> outcome]

\* A database the archive has not been restored into.
EmptyDb ==
    [tables |-> FALSE, data |-> [id \in ArchiveIds |-> 0], indexes |-> FALSE]

\* The database after the archive was restored into an empty one.
RestoredDb ==
    [tables |-> TRUE, data |-> [id \in ArchiveIds |-> 1], indexes |-> TRUE]

\* Rows in the target's tables.
RECURSIVE Loaded(_, _)
Loaded(data, ids) ==
    IF ids = {}
    THEN 0
    ELSE LET id == CHOOSE x \in ids : TRUE
         IN  data[id] + Loaded(data, ids \ {id})

\* COPY of the given archive rows: the table has no constraint yet that
\* could reject a row it already holds, so each row is added once more.
CopyRows(data, ids) ==
    [id \in ArchiveIds |-> IF id \in ids THEN data[id] + 1 ELSE data[id]]

\* _restore_section builds the pg_restore command without --clean.
SectionCommandCleans == FALSE

\* _restore_full passes --clean --if-exists.
FullCommandCleans == TRUE

\* --clean --if-exists: the objects the invocation is about to create are
\* dropped first; table rows are not objects of the data section.
Cleaned(d, section) ==
    CASE section = "pre-data" -> EmptyDb
      [] section = "data" -> d
      [] section = "post-data" -> [d EXCEPT !.indexes = FALSE]
      [] OTHER -> EmptyDb

\* pg_restore exits 0 on one section: every statement of it succeeded.
\* CREATE TABLE fails on an existing table, COPY on a missing one, CREATE
\* INDEX on a missing table or an existing index.
SectionDone(d, section) ==
    CASE section = "pre-data" ->
            IF d.tables THEN {} ELSE {[d EXCEPT !.tables = TRUE]}
      [] section = "data" ->
            IF d.tables /\ Loaded(d.data, ArchiveIds)
                              + Cardinality(ArchiveIds) <= MaxLoaded
            THEN {[d EXCEPT !.data = CopyRows(d.data, ArchiveIds)]}
            ELSE {}
      [] section = "post-data" ->
            IF d.tables /\ ~d.indexes
            THEN {[d EXCEPT !.indexes = TRUE]}
            ELSE {}

\* pg_restore exits non-zero on one section: what it leaves behind. Each
\* COPY commits on its own, so a data section that fails part-way keeps the
\* tables it had loaded.
SectionBroken(d, section) ==
    {d} \cup
    IF section = "data" /\ d.tables
          /\ Loaded(d.data, ArchiveIds) + 1 <= MaxLoaded
    THEN {[d EXCEPT !.data = CopyRows(d.data, {1})]}
    ELSE {}

\* The databases one pg_restore invocation can leave: subprocess.run with
\* check=True over the whole archive ("all") or one --section of it.
PgRestore(d, section, clean, outcome) ==
    LET d0 == IF clean THEN Cleaned(d, section) ELSE d
        pre == SectionDone(d0, "pre-data")
        dat == UNION {SectionDone(d1, "data") : d1 \in pre}
    IN  CASE outcome = "other_exception" -> {d}
          [] outcome = "ok" /\ section = "all" ->
                UNION {SectionDone(d2, "post-data") : d2 \in dat}
          [] outcome = "ok" /\ section # "all" -> SectionDone(d0, section)
          [] outcome = "called_process_error" /\ section = "all" ->
                {d, d0} \cup pre \cup dat
                    \cup UNION {SectionBroken(d1, "data") : d1 \in pre}
          [] outcome = "called_process_error" /\ section # "all" ->
                {d} \cup SectionBroken(d0, section)

\* An entry point that walks a section list is entered.
StartRestore(o, secs) ==
    /\ r_pc # "running"
    /\ r_op' = o
    /\ sections' = secs
    /\ k' = 0
    /\ attempts' = <<>>
    /\ success_sections' = <<>>
    /\ failed_sections' = <<>>
    /\ db' = db
    /\ first_failure' = first_failure

\* crash_safe_restore is called.
StartCrashSafeRestore ==
    /\ StartRestore("crash_safe_restore", SectionOrder)
    /\ r_pc' = "running"
    /\ r_result' = "none"
    /\ resume_track' = IF db = EmptyDb THEN "from_clean" ELSE "off"
    /\ UNCHANGED <<mig_vars, env_vars>>

\* What the caller of crash_safe_restore gets back, recorded when the
\* operation ends: the value of the first failed call with its section,
\* and whether a restore of an empty database ran through or broke off in
\* the data section with part of the data loaded.
CrashSafeReturns ==
    /\ first_failure' =
          IF r_pc' = "done" /\ r_result' # TRUE /\ first_failure = {}
          THEN {[result |-> r_result', section |-> Last(attempts').section]}
          ELSE first_failure
    /\ resume_track' =
          IF r_pc' # "done"
          THEN resume_track
          ELSE IF resume_track = "from_clean" /\ r_result' = TRUE
          THEN "uninterrupted"
          ELSE IF /\ resume_track = "from_clean"
                  /\ Last(attempts') = [section |-> "data",
                                        outcome |-> "called_process_error"]
          THEN "data_failed"
          ELSE "off"

\* Variant: the return value of _restore_section is not tested; every step
\* runs and the operation returns whether all of them succeeded.
CrashSafeStep_SkipsCheck(outcome) ==
    /\ r_op = "crash_safe_restore"
    /\ r_pc = "running"
    /\ db' \in PgRestore(db, sections[k + 1], SectionCommandCleans, outcome)
    /\ attempts' = Append(attempts, [section |-> sections[k + 1],
                                     outcome |-> outcome])
    /\ k' = k + 1
    /\ IF k + 1 = Len(sections)
       THEN /\ r_pc' = "done"
            /\ r_result' = \A n \in 1..Len(attempts') :
                                attempts'[n].outcome = "ok"
       ELSE r_pc' = "running" /\ r_result' = "none"
    /\ CrashSafeReturns
    /\ UNCHANGED <<r_op, sections, success_sections, failed_sections, mig_vars, env_vars>>

\* Variant: a failed post-data step falls through to return True.
CrashSafeStep_ReturnsTrue(outcome) ==
    /\ r_op = "crash_safe_restore"
    /\ r_pc = "running"
    /\ db' \in PgRestore(db, sections[k + 1], SectionCommandCleans, outcome)
    /\ attempts' = Append(attempts, [section |-> sections[k + 1],
                                     outcome |-> outcome])
    /\ IF outcome # "ok" /\ k + 1 < Len(sections)
       THEN /\ r_pc' = "done"
            /\ r_result' = FALSE
            /\ k' = k
       ELSE /\ k' = k + 1
            /\ IF k + 1 = Len(sections)
               THEN r_pc' = "done" /\ r_result' = TRUE
               ELSE r_pc' = "running" /\ r_result' = "none"
    /\ CrashSafeReturns
    /\ UNCHANGED <<r_op, sections, success_sections, failed_sections, mig_vars, env_vars>>

\* crash_safe_restore: the next step of the three; a section that does not
\* restore ends the operation with False, the third success with True.
CrashSafeStep(outcome) ==
    /\ r_op = "crash_safe_restore"
    /\ r_pc = "running"
    /\ db' \in PgRestore(db, sections[k + 1], SectionCommandCleans, outcome)
    /\ attempts' = Append(attempts, Attempt(sections[k + 1], outcome))
    /\ IF RestoreSectionRaises(outcome) \/ ~RestoreSectionReturns(outcome)
       THEN /\ r_pc' = "done"
            /\ r_result' = FALSE
            /\ k' = k
       ELSE /\ k' = k + 1
            /\ IF k + 1 = Len(sections)
               THEN r_pc' = "done" /\ r_result' = TRUE
               ELSE r_pc' = "running" /\ r_result' = "none"
    /\ CrashSafeReturns
    /\ UNCHANGED <<r_op, sections, success_sections, failed_sections, mig_vars, env_vars>>

\* restore_backup(backup_file, target_db, sections) is called with a list.
StartRestoreSections(secs) ==
    /\ StartRestore("restore_backup", secs)
    /\ IF secs = <<>>
       THEN r_pc' = "done" /\ r_result' = TRUE
       ELSE r_pc' = "running" /\ r_result' = "none"
    /\ resume_track' = IF /\ resume_track = "data_failed"
                          /\ secs = <<"data", "post-data">>
                       THEN "resuming"
                       ELSE "off"
    /\ UNCHANGED <<mig_vars, env_vars>>

\* _restore_sections: the body of the for loop for the next listed section,
\* and after the last one the summary and the return.
RestoreSectionsStep(outcome) ==
    /\ r_op = "restore_backup"
    /\ r_pc = "running"
    /\ sections # NoSections
    /\ db' \in PgRestore(db, sections[k + 1], SectionCommandCleans, outcome)
    /\ attempts' = Append(attempts, Attempt(sections[k + 1], outcome))
    /\ IF ~RestoreSectionRaises(outcome) /\ RestoreSectionReturns(outcome)
       THEN /\ success_sections' = Append(success_sections, sections[k + 1])
            /\ failed_sections' = failed_sections
       ELSE /\ failed_sections' = Append(failed_sections, sections[k + 1])
            /\ success_sections' = success_sections
    /\ k' = k + 1
    /\ IF k + 1 = Len(sections)
       THEN r_pc' = "done" /\ r_result' = (failed_sections' = <<>>)
       ELSE r_pc' = "running" /\ r_result' = "none"
    /\ resume_track' = IF r_pc' # "done"
                       THEN resume_track
                       ELSE IF resume_track = "resuming" /\ r_result' = TRUE
                       THEN "completed"
                       ELSE "off"
    /\ UNCHANGED <<r_op, sections, first_failure, mig_vars, env_vars>>

\* Variant: _restore_full restricts pg_restore to the data section.
RestoreFull_DataOnly(outcome) ==
    /\ r_pc # "running"
    /\ r_op' = "restore_backup"
    /\ sections' = NoSections
    /\ k' = 0
    /\ db' \in PgRestore(db, "data", FullCommandCleans, outcome)
    /\ attempts' = <<[section |-> "all", outcome |-> outcome]>>
    /\ success_sections' = <<>>
    /\ failed_sections' = <<>>
    /\ r_pc' = "done"
    /\ r_result' = IF outcome = "ok" THEN TRUE ELSE "raised"
    /\ resume_track' = "off"
    /\ UNCHANGED <<first_failure, mig_vars, env_vars>>

\* restore_backup with sections=None: _restore_full runs pg_restore once over
\* the whole archive and re-raises its failure.
RestoreFull(outcome) ==
    /\ r_pc # "running"
    /\ r_op' = "restore_backup"
    /\ sections' = NoSections
    /\ k' = 0
    /\ db' \in PgRestore(db, "all", FullCommandCleans, outcome)
    /\ attempts' = <<Attempt("all", outcome)>>
    /\ success_sections' = <<>>
    /\ failed_sections' = <<>>
    /\ r_pc' = "done"
    /\ r_result' = IF outcome = "ok" THEN TRUE ELSE "raised"
    /\ resume_track' = "off"
    /\ UNCHANGED <<first_failure, mig_vars, env_vars>>

\* return self._restore_section(backup_file, target_db, section)
ResumeSection(o, section, outcome) ==
    /\ r_pc # "running"
    /\ r_op' = o
    /\ sections' = <<section>>
    /\ k' = 0
    /\ db' \in PgRestore(db, section, SectionCommandCleans, outcome)
    /\ attempts' = <<Attempt(section, outcome)>>
    /\ success_sections' = <<>>
    /\ failed_sections' = <<>>
    /\ r_pc' = "done"
    /\ r_result' = IF RestoreSectionRaises(outcome)
                   THEN "raised"
                   ELSE RestoreSectionReturns(outcome)
    /\ resume_track' =
          IF ~RestoreSectionReturns(outcome)
          THEN "off"
          ELSE IF resume_track = "data_failed" /\ section = "data"
          THEN "data_resumed"
          ELSE IF resume_track = "data_resumed" /\ section = "post-data"
          THEN "completed"
          ELSE "off"
    /\ UNCHANGED <<first_failure, mig_vars, env_vars>>

ResumeDataRestore(outcome) ==
    ResumeSection("resume_data_restore", "data", outcome)

ResumePostDataRestore(outcome) ==
    ResumeSection("resume_post_data_restore", "post-data", outcome)

RestoreNext ==
    \/ StartCrashSafeRestore
    \/ \E outcome \in Outcomes : CrashSafeStep(outcome)
    \/ \E secs \in SectionLists(MaxSections) : StartRestoreSections(secs)
    \/ \E outcome \in Outcomes : RestoreSectionsStep(outcome)
    \/ \E outcome \in Outcomes : RestoreFull(outcome)
    \/ \E outcome \in Outcomes : ResumeDataRestore(outcome)
    \/ \E outcome \in Outcomes : ResumePostDataRestore(outcome)

RestoreSpec == Init /\ [][RestoreNext]_vars

\* ------------------------------------------------------------------------
\* The core operations with every failure of a statement
\* ------------------------------------------------------------------------
\* The migration scripts and backup_restore.py are separate programs: a
\* process runs the operations of one of them.
MigrationProcess == r_op = "none"

RestoreProcess ==
    /\ op = "none"
    /\ syb_table = <<>>
    /\ pg_table = <<>>
    /\ origin = NoPrev

CoreNext ==
    \/ MigrationProcess /\ VerifyNext
    \/ RestoreProcess /\ StartCrashSafeRestore
    \/ RestoreProcess /\ \E outcome \in Outcomes : CrashSafeStep(outcome)

CoreSpec == Init /\ [][CoreNext]_vars


\* ------------------------------------------------------------------------
\* Properties of the restore entry points (checked under RestoreSpec)
\* ------------------------------------------------------------------------
\* Some earlier attempt of this operation restored the section.
SucceededBefore(section, n) ==
    \E m \in 1..(n - 1) : attempts[m] = Attempt(section, "ok")

\* The attempts of this operation respect the section order: data only after
\* a successful pre-data, post-data only after a successful data, no section
\* twice, and pre-data before data before post-data.
OrderedAttempts ==
    /\ \A n \in 1..Len(attempts) :
          /\ attempts[n].section = "data" => SucceededBefore("pre-data", n)
          /\ attempts[n].section = "post-data" => SucceededBefore("data", n)
    /\ \A m, n \in 1..Len(attempts) :
          m # n => attempts[m].section # attempts[n].section
    /\ Len(attempts) <= Len(SectionOrder)
    /\ \A n \in 1..Len(attempts) : attempts[n].section = SectionOrder[n]

\* C8 as stated: in every execution of the restore controller (crash-safe
\* restore and the resume entry points) data is attempted only after the
\* execution's pre-data attempt succeeded, post-data only after its data
\* attempt succeeded, each section at most once and in order.
C8_OrderInEveryExecution ==
    r_op \in {"crash_safe_restore", "resume_data_restore",
              "resume_post_data_restore"} => OrderedAttempts

\* C8 amended: every execution of crash_safe_restore attempts the sections
\* in order, each at most once, and each only after the one before it
\* succeeded; a resume entry point attempts exactly its own section, once,
\* whatever happened to the earlier sections.
C8_OrderInCrashSafeRestore ==
    /\ r_op = "crash_safe_restore" => OrderedAttempts
    /\ r_op = "resume_data_restore" =>
          Len(attempts) = 1 /\ attempts[1].section = "data"
    /\ r_op = "resume_post_data_restore" =>
          Len(attempts) = 1 /\ attempts[1].section = "post-data"

\* C8 witness: crash_safe_restore attempted post-data after pre-data and data
\* had both succeeded.
C8_Witness ==
    /\ r_op = "crash_safe_restore"
    /\ Len(attempts) = 3
    /\ attempts[1] = Attempt("pre-data", "ok")
    /\ attempts[2] = Attempt("data", "ok")
    /\ attempts[3].section = "post-data"

\* C9: in crash_safe_restore and in restore_backup with a section list, no
\* section is attempted after a section of the same invocation failed.
C9_HaltOnSectionFailure ==
    ((r_op = "crash_safe_restore" \/ r_op = "restore_backup")
        /\ sections # NoSections) =>
        \A n \in 1..Len(attempts) :
            n < Len(attempts) => attempts[n].outcome = "ok"

\* C10: crash_safe_restore returns True exactly when pre-data, data and
\* post-data were attempted in that order and all succeeded; it returns False
\* otherwise, and then no section was attempted after the one that failed.
C10_DoneIffAllSucceeded ==
    (r_op = "crash_safe_restore" /\ r_pc = "done") =>
        /\ r_result \in BOOLEAN
        /\ r_result = TRUE <=>
              attempts = <<Attempt("pre-data", "ok"), Attempt("data", "ok"),
                           Attempt("post-data", "ok")>>
        /\ r_result = FALSE =>
              /\ attempts # <<>>
              /\ Last(attempts).outcome # "ok"
              /\ \A n \in 1..(Len(attempts) - 1) : attempts[n].outcome = "ok"
              /\ \A n \in 1..Len(attempts) :
                    attempts[n].section = SectionOrder[n]

\* C10 witness: crash_safe_restore has returned False after data failed, with
\* post-data never attempted.
C10_Witness ==
    /\ r_op = "crash_safe_restore"
    /\ r_pc = "done"
    /\ r_result = FALSE
    /\ Len(attempts) = 2
    /\ attempts[2] = Attempt("data", "called_process_error")

\* C11: a failed restore reports to its caller which section failed: two
\* crash_safe_restore calls that failed at different sections never return
\* the same value.
C11_FailureNamesSection ==
    (r_op = "crash_safe_restore" /\ r_pc = "done" /\ r_result # TRUE) =>
        \A f \in first_failure :
            f.result = r_result => f.section = Last(attempts).section

\* C12: resume_data_restore attempts data and then, when data restored,
\* post-data, and never pre-data; resume_post_data_restore attempts only
\* post-data.
C12_ResumeRunsRemainingSections ==
    /\ (r_op = "resume_data_restore" /\ r_pc = "done") =>
          /\ attempts[1].section = "data"
          /\ \A n \in 1..Len(attempts) : attempts[n].section # "pre-data"
          /\ IF attempts[1].outcome = "ok"
             THEN Len(attempts) = 2 /\ attempts[2].section = "post-data"
             ELSE Len(attempts) = 1
    /\ (r_op = "resume_post_data_restore" /\ r_pc = "done") =>
          /\ Len(attempts) = 1
          /\ attempts[1].section = "post-data"

\* C13: a restore of an empty database whose data section failed part-way,
\* resumed at data and completed through post-data, leaves the database an
\* uninterrupted restore leaves.
C13_ResumeEquivalence ==
    resume_track = "completed" => db = RestoredDb

\* C14: re-applying a section does not double-insert: the target never holds
\* an archive row more than once.
C14_NoDoubleInsert ==
    \A id \in ArchiveIds : db.data[id] <= 1

RECURSIVE UpsertAll(_, _)
UpsertAll(T, rs) ==
    IF rs = <<>>
    THEN T
    ELSE UpsertAll(Upsert(T, Head(rs)), Tail(rs))

\* What sync_table_data makes of target T when its batches end as logged:
\* the rows of each committed batch upserted, those of the others not.
RECURSIVE SyncTableDataTarget(_, _)
SyncTableDataTarget(T, log) ==
    IF log = <<>>
    THEN T
    ELSE SyncTableDataTarget(IF Head(log).outcome = "committed"
                             THEN UpsertAll(T, EntryRows(Head(log)))
                             ELSE T,
                             Tail(log))

\* What sync_table_data returns: False on an empty source, else whether no
\* batch failed.
SyncTableDataReturn ==
    /\ rows # <<>>
    /\ \A n \in 1..Len(batch_log) : batch_log[n].outcome = "committed"

\* The row is in the table.
InTable(T, row) == \E t \in 1..Len(T) : T[t] = row

\* C16: with no watermark in the target (the target has no row),
\* incremental_sync returns what sync_table_data returns and leaves the
\* target sync_table_data leaves.
C16_AbsentWatermarkIsFullSync ==
    (/\ op = "incremental_sync"
     /\ pc = "done"
     /\ last_sync = NoWatermark
     /\ exit_path \in {"empty", "loop_end"}) =>
        /\ result = SyncTableDataReturn
        /\ pg_table = SyncTableDataTarget(<<>>, batch_log)

C16_Witness ==
    /\ op = "incremental_sync"
    /\ pc = "done"
    /\ last_sync = NoWatermark
    /\ exit_path = "loop_end"
    /\ result = FALSE
    /\ pg_table # <<>>

\* C17: in a cycle with watermark W every selected row, and every row the
\* cycle puts into the target, has updated_at > W.
C17_StrictWatermarkSelection ==
    (op = "incremental_sync" /\ last_sync # NoWatermark) =>
        /\ \A n \in 1..Len(rows) : rows[n].updated_at > last_sync
        /\ \A t \in 1..Len(pg_txn) :
              ~InTable(pre_batch, pg_txn[t]) => pg_txn[t].updated_at > last_sync
        /\ \A t \in 1..Len(pg_table) :
              ~InTable(pre_batch, pg_table[t]) =>
                  pg_table[t].updated_at > last_sync

C17_Witness ==
    /\ op = "incremental_sync"
    /\ exit_path = "committed"
    /\ last_sync # NoWatermark
    /\ success_count >= 1
    /\ \E n \in 1..Len(syb_table) :
          /\ syb_table[n].updated_at = last_sync
          /\ ~InTable(pg_table, syb_table[n])

\* C18: after a cycle that returned True the target's watermark is at least
\* the watermark the cycle read at its start.
C18_WatermarkMonotone ==
    (op = "incremental_sync" /\ pc = "done" /\ result = TRUE) =>
        Watermark(pg_table) >= last_sync

C18_Witness ==
    /\ op = "incremental_sync"
    /\ exit_path = "committed"
    /\ last_sync # NoWatermark
    /\ Watermark(pg_table) > last_sync

\* C19: a row whose upsert failed is the only one the cycle skips: every
\* selected row whose upsert was executed is in the target when the cycle
\* has committed.
C19_RowFailureIsolated ==
    (op = "incremental_sync" /\ exit_path = "committed") =>
        \A n \in 1..Len(batch_log) :
            batch_log[n].outcome = "executed" => InTable(pg_table, rows[n])

\* C20: incremental_sync returns False exactly when an exception of a
\* connection or query ended it, and True in every other cycle.
C20_TrueUnlessConnectionError ==
    (op = "incremental_sync" /\ pc = "done") =>
        (result = (exit_path # "exception"))

\* C21: a cycle with watermark W leaves every target row as it was whose key
\* is not the key of a source row with updated_at > W, and no key of the
\* target is lost.
C21_IncrementalFrame ==
    (op = "incremental_sync" /\ last_sync # NoWatermark) =>
        /\ \A t \in 1..Len(pre_batch) :
              (\A n \in 1..Len(syb_table) :
                    syb_table[n].id = pre_batch[t].id =>
                        syb_table[n].updated_at <= last_sync)
                  => InTable(pg_table, pre_batch[t]) /\ InTable(pg_txn, pre_batch[t])
        /\ KeysOf(pre_batch) \subseteq KeysOf(pg_table)
        /\ KeysOf(pre_batch) \subseteq KeysOf(pg_txn)

C21_Witness ==
    /\ op = "incremental_sync"
    /\ exit_path = "committed"
    /\ last_sync # NoWatermark
    /\ pg_table # pre_batch
    /\ \E t \in 1..Len(pre_batch) : \E n \in 1..Len(syb_table) :
          /\ syb_table[n].id = pre_batch[t].id
          /\ syb_table[n].salary # pre_batch[t].salary
          /\ syb_table[n].updated_at <= last_sync
          /\ InTable(pg_table, pre_batch[t])

\* ------------------------------------------------------------------------
\* Properties of runs that are cut short (checked under RecoverySpec)
\* ------------------------------------------------------------------------
\* The target one uninterrupted failure-free run over rows rs makes of T:
\* every row of T whose key is in rs carries the values of rs, the other
\* rows of T are as they were, and the rows of rs with a new key follow in
\* the order of rs.
FailureFreeRun(T, rs) ==
    [t \in 1..Len(T) |->
        IF HasKey(rs, T[t].id)
        THEN rs[CHOOSE n \in 1..Len(rs) : rs[n].id = T[t].id]
        ELSE T[t]]
    \o SelectSeq(rs, LAMBDA r : ~HasKey(T, r.id))

\* Two tables hold the same rows; the order rows are stored in is not part
\* of what a table holds.
SameTable(A, B) ==
    /\ Len(A) = Len(B)
    /\ {A[n] : n \in 1..Len(A)} = {B[n] : n \in 1..Len(B)}

\* C30: a batch migration was killed at some point and the source is as it
\* was; when a later run ends complete and failure-free, the target is the
\* one a single uninterrupted failure-free run makes of the original target.
C30_RerunAfterCrash ==
    (/\ origin # NoPrev
     /\ crashed
     /\ op \in Ops
     /\ pc = "done"
     /\ exit_path = "loop_end"
     /\ error_count = 0) =>
        SameTable(pg_table, FailureFreeRun(origin, rows))

C30_Witness ==
    /\ origin # NoPrev
    /\ origin # <<>>
    /\ crashed
    /\ op \in Ops
    /\ exit_path = "loop_end"
    /\ error_count = 0
    /\ Len(rows) >= 2
    /\ KeysOf(origin) # KeysOf(pg_table)
    /\ \E t \in 1..Len(origin) : ~InTable(pg_table, origin[t])

C23_TrueIffCountsEqual ==
    [][op' = "verify_migration" =>
          /\ result' = (Len(syb_table) = Len(pg_table))
          /\ syb_table' = syb_table
          /\ pg_table' = pg_table]_vars

\* C23: verify_migration returns True exactly when both counts could be
\* read and are equal, False when one could not be read, and changes
\* neither table.
C23_TrueIffCountsReadAndEqual ==
    [][op' = "verify_migration" =>
          /\ result' = (/\ exit_path' = "compared"
                        /\ Len(syb_table) = Len(pg_table))
          /\ exit_path' \in {"compared", "count_failed"}
          /\ syb_table' = syb_table
          /\ pg_table' = pg_table
          /\ pg_txn' = pg_table]_vars

C23_Witness ==
    /\ op = "verify_migration"
    /\ exit_path = "compared"
    /\ result = FALSE
    /\ pg_table # <<>>
    /\ Len(syb_table) > Len(pg_table)

\* ------------------------------------------------------------------------
\* Properties of the connection pool (checked under PoolSpec)
\* ------------------------------------------------------------------------
\* C26: between operations no target connection is checked out: every
\* operation has put back what it took, on every way it can end.
C26_PoolBalanced == checked_out = 0

\* C27: no operation ends because the pool had no connection left to give.
C27_ExhaustionNeverAnError == p_exit # "pool_exhausted"

\* ------------------------------------------------------------------------
\* Properties of the scheduled service (checked under SchedSpec)
\* ------------------------------------------------------------------------
\* C24: a shutdown signal never cuts a sync cycle short: every sync_job
\* call that began has returned by its own steps whenever no call is in
\* progress, and the scheduler stops only between two calls.
C24_CycleNotInterrupted ==
    /\ cycle_pc = "none" => finished = cycles
    /\ cycle_pc # "none" =>
            /\ finished + 1 = cycles
            /\ s_pc \in {"initial_sync", "job"}
    /\ s_pc \in {"exited", "killed"} => cycle_pc = "none"

C24_Witness ==
    /\ s_pc = "exited"
    /\ signal_at = "job"
    /\ ~running
    /\ cycles >= 2
    /\ finished = cycles

\* C25: after a shutdown signal that arrived during the initial sync,
\* during a scheduled sync or while the loop was idle, no sync cycle is
\* started.
C25_NoCycleAfterSignal ==
    signal_at \notin {"none", "startup"} => ~late_start

\* ------------------------------------------------------------------------
\* Properties of the performance monitor (checked under MonitorSpec)
\* ------------------------------------------------------------------------
\* C28: once stop_monitoring has returned, no sampler thread appends to
\* performance_data.
C28_NoAppendAfterStop == ~late_append

\* ------------------------------------------------------------------------
\* Properties of the core operations together (checked under CoreSpec)
\* ------------------------------------------------------------------------
\* The return statements of the four data operations.
ReturnPaths == {"empty", "loop_end", "exception", "no_updates", "committed",
                "compared", "count_failed"}

\* C29: whatever statement fails, sync_table_data, migrate_employees_data,
\* incremental_sync, verify_migration and crash_safe_restore end at one of
\* their return statements with True or False; no exception leaves them.
C29_NoExceptionEscapes ==
    /\ pc = "done" =>
            /\ op \in Ops \cup {"incremental_sync", "verify_migration"}
            /\ exit_path \in ReturnPaths
            /\ result \in BOOLEAN
    /\ (r_op = "crash_safe_restore" /\ r_pc = "done") =>
            r_result \in BOOLEAN

C29_Witness ==
    /\ pc = "done"
    /\ op = "incremental_sync"
    /\ exit_path = "exception"
    /\ result = FALSE
    /\ last_sync # NoWatermark
    /\ pg_table # <<>>

\* C31: sync cycles never overlap. Of the sync_job calls begun at most one
\* has not returned, it is the one the main thread is inside of (the initial
\* call or the call made by run_pending), and this stays so while the
\* interval elapses during a cycle and while the signal handler runs
\* during a cycle.
C31_AtMostOneCycle ==
    /\ cycles - finished \in {0, 1}
    /\ cycles - finished = 1 <=> cycle_pc # "none"
    /\ cycle_pc # "none" => s_pc \in {"initial_sync", "job"}

\* A cycle is running, the job became due again meanwhile and the signal
\* handler ran during a scheduled cycle.
C31_Witness ==
    /\ cycle_pc \in {"sync", "close"}
    /\ due
    /\ signal_at = "job"
    /\ cycles - finished = 1

\* C39: a failed sync cycle never stops the scheduler. run_scheduler
\* leaves its loop only after a signal was received, and once a cycle that
\* failed (connection test failed, incremental_sync returned False, or an
\* exception) has ended and the job is due again, the next cycle starts
\* unless a signal arrives first.
C39_FailedCycleDoesNotStop ==
    /\ [](s_pc = "exited" => signal_at # "none")
    /\ \A n \in 1..MaxCycles :
          (/\ Len(fail_log) = n
           /\ fail_log[n]
           /\ cycle_pc = "none"
           /\ due
           /\ signal_at = "none")
             ~> (signal_at # "none" \/ Len(fail_log) > n)

\* No signal so far, the cycle before failed and the next one has begun.
C39_Witness ==
    /\ signal_at = "none"
    /\ Len(fail_log) >= 2
    /\ fail_log[Len(fail_log) - 1]
    /\ cycle_pc # "none"
    /\ s_pc = "job"

\* C40: when a sync_job call has ended, on every exit path, every target
\* pool and source connection opened during it has been closed, so that
\* nothing is held between two cycles.
C40_CycleReleasesAll ==
    cycle_pc = "none" => held = NothingHeld

\* C32: the N fetched rows are split into ceil(N/B) consecutive batches of
\* 1 to B rows, each beginning where the one before ended, so that every row
\* is in exactly one batch and the order of the rows is kept; every batch is
\* ended once, by a commit or by a rollback, and a commit happens only after
\* all rows of the batch were executed.
C32_BatchProtocol ==
    /\ [](op \in Ops =>
           /\ \A n \in 1..Len(batch_log) :
                 /\ batch_log[n].len \in 1..batch_size
                 /\ batch_log[n].start =
                       IF n = 1 THEN 0
                       ELSE batch_log[n - 1].start + batch_log[n - 1].len
                 /\ batch_log[n].outcome \in {"committed", "rolled_back"}
           /\ pc = "batch" =>
                 /\ i = IF batch_log = <<>> THEN 0
                        ELSE Last(batch_log).start + Last(batch_log).len
                 /\ Len(CurBatch) \in 1..batch_size
                 /\ CurBatch = SubSeq(rows, i + 1, i + Len(CurBatch))
                 /\ j <= Len(CurBatch)
           /\ exit_path = "loop_end" =>
                 /\ Len(batch_log) = BatchCount(Len(rows), batch_size)
                 /\ Last(batch_log).start + Last(batch_log).len = Len(rows))
    /\ [][(op \in Ops /\ batch_log' # batch_log /\ batch_log' # <<>>) =>
            /\ pc = "batch"
            /\ batch_log' = Append(batch_log, Last(batch_log'))
            /\ Last(batch_log').start = i
            /\ Last(batch_log').len = Len(CurBatch)
            /\ Last(batch_log').outcome = "committed" => j = Len(CurBatch)
            /\ j' = 0]_vars

\* Three rows in batches of two: the first batch of two rows was committed,
\* the last, short batch of one row was rolled back.
C32_Witness ==
    /\ op \in Ops
    /\ exit_path = "loop_end"
    /\ Len(rows) = 3
    /\ batch_size = 2
    /\ Len(batch_log) = 2
    /\ batch_log[1] = [start |-> 0, len |-> 2, outcome |-> "committed"]
    /\ batch_log[2] = [start |-> 2, len |-> 1, outcome |-> "rolled_back"]

\* C35: single producer. At any time at most one sampler thread is alive,
\* that is, running _monitor_loop and able to append to performance_data,
\* also after a stop_monitoring whose join timed out was followed by a
\* start_monitoring.
C35_SingleProducer ==
    Cardinality({t \in 1..MaxThreads :
                    sampler[t] \in {"test", "collect", "sleep"}}) <= 1

\* C36: repair by re-syncing. An incremental sync cycle that finds nothing
\* to do (no source row is newer than the target's watermark) is repeated
\* unchanged by every later cycle while the source stays as it is; so if
\* re-syncing repairs the target, every source row is in the target by then.
C36_ResyncRepairs ==
    (op = "incremental_sync" /\ pc = "done" /\ exit_path = "no_updates") =>
        \A n \in 1..Len(syb_table) : InTable(pg_table, syb_table[n])

\* C37: an incremental cycle with a present watermark commits once, after
\* the last selected row was attempted: while its row loop runs the
\* committed target is as the cycle found it, only the step that ends the
\* loop with the commit changes it, and a cycle that returns False because
\* the commit raised leaves the target as the cycle found it.
C37_SingleTransaction ==
    /\ [](pc = "rows" =>
            /\ op = "incremental_sync"
            /\ last_sync # NoWatermark
            /\ pg_table = pre_batch)
    /\ []((/\ op = "incremental_sync"
           /\ last_sync # NoWatermark
           /\ exit_path = "exception") => pg_table = pre_batch)
    /\ [][(pc = "rows" /\ pg_table' # pg_table) =>
             /\ j = Len(rows)
             /\ pc' = "done"
             /\ exit_path' = "committed"]_vars

\* A cycle whose first selected row was executed and would have changed the
\* target returned False at the commit, and the target is unchanged.
C37_Witness ==
    /\ exit_path = "exception"
    /\ op = "incremental_sync"
    /\ last_sync # NoWatermark
    /\ batch_log # <<>>
    /\ batch_log[1].outcome = "executed"
    /\ Upsert(pre_batch, rows[1]) # pre_batch
    /\ pg_table = pre_batch

\* C38: no step of migrate_employees_data, sync_table_data,
\* incremental_sync or verify_migration, failed batches and rollbacks
\* included, removes a primary key from the target; only dropping and
\* re-creating the table does.
C38_KeysNeverShrink ==
    [][CreateTablePostgres \/ KeysOf(pg_table) \subseteq KeysOf(pg_table')]_vars

\* A run over a source that no longer holds every key of the target ended
\* with a failed batch, and the target still holds the keys.
C38_Witness ==
    /\ op \in Ops
    /\ exit_path = "loop_end"
    /\ error_count > 0
    /\ KeysOf(syb_table) \subseteq KeysOf(pg_table)
    /\ KeysOf(syb_table) # KeysOf(pg_table)

\* C33: generate_postgres_schema emits one column definition per column of
\* the descriptor, in descriptor order; when at least one column is a
\* primary key, exactly one PRIMARY KEY constraint follows all column
\* definitions and lists exactly the primary-key columns in descriptor
\* order; with no primary-key column there is no PRIMARY KEY constraint.
C33_ColumnsThenKey ==
    ddl.status = "ok" =>
        LET defs == ddl.definitions
            n == Len(columns)
            key_positions == {c \in 1..n : columns[c].is_primary_key}
            constraints == {d \in 1..Len(defs) :
                               defs[d].kind = "primary_key"}
        IN  /\ Len(defs) >= n
            /\ \A c \in 1..n :
                  /\ defs[c].kind = "column"
                  /\ defs[c].name = columns[c].column_name
            /\ key_positions = {} => constraints = {}
            /\ key_positions # {} =>
                  /\ constraints = {n + 1}
                  /\ Len(defs) = n + 1
                  /\ Len(defs[n + 1].keys) = Cardinality(key_positions)
                  /\ \A c \in key_positions :
                        \E a \in 1..Len(defs[n + 1].keys) :
                            defs[n + 1].keys[a] = columns[c].column_name
                  /\ \A a, b \in 1..Len(defs[n + 1].keys) :
                        a < b =>
                            \E c, e \in key_positions :
                                /\ c < e
                                /\ defs[n + 1].keys[a] = columns[c].column_name
                                /\ defs[n + 1].keys[b] = columns[e].column_name

\* A descriptor of two columns, both in the key: two column definitions and
\* after them the constraint on both.
C33_Witness ==
    /\ ddl.status = "ok"
    /\ Len(columns) = 2
    /\ columns[1].is_primary_key
    /\ columns[2].is_primary_key
    /\ Len(ddl.definitions) = 3
    /\ ddl.definitions[3].keys = <<"id", "name">>

\* C34: convert_sybase_to_postgres_type is total. For a type name of the
\* mapping table in any spelling the result is the table's target type,
\* where decimal and numeric carry the given precision and scale and the
\* char and varchar kinds the given length; for any other type name the
\* result is TEXT.
C34_ConvertTotal ==
    conv.called =>
        LET word == conv.sybase_type.word
            expected == TypeMapping(conv.length, conv.precision, conv.scale)
        IN  /\ word \in MappedWords =>
                  conv.result = expected[TypeName(word, "lower")]
            /\ word \in {"decimal", "numeric"} =>
                  conv.result = PgType("NUMERIC",
                                       <<conv.precision, conv.scale>>)
            /\ word \in {"char", "nchar"} =>
                  conv.result = PgType("CHAR", <<conv.length>>)
            /\ word \in {"varchar", "nvarchar"} =>
                  conv.result = PgType("VARCHAR", <<conv.length>>)
            /\ word \notin MappedWords => conv.result = Text

\* NUMERIC was given in upper case with precision 18 and scale 2.
C34_Witness ==
    /\ conv.called
    /\ conv.sybase_type = TypeName("numeric", "upper")
    /\ conv.precision = 18
    /\ conv.scale = 2
    /\ conv.result = PgType("NUMERIC", <<18, 2>>)
====
